---- MODULE Spec2Model ----
(***************************************************************************)
(* Model of the subscription tracker: the merchant-name matcher            *)
(* (nw-backend/src/utils/stringMatching.ts), the cancellation-link lookup, *)
(* the recurring-transaction detector with its totals                      *)
(* (nw-backend/src/services/recurringDetector), the transaction store      *)
(* (nw-backend/src/db/jsonDb.ts), the visit endpoint of the server and the *)
(* tab tracker of the browser extension.                                   *)
(*                                                                         *)
(* Strings are TLA+ strings (sequences of characters); a character is a    *)
(* string of length 1.  Money is counted in whole cents and dates in whole *)
(* days.  The average amount of a descriptor is computed on IEEE-754       *)
(* doubles as the code computes it; the other divisions are carried out    *)
(* exactly on integers.                                                    *)
(***************************************************************************)
EXTENDS Integers, Sequences, FiniteSets, TLC

VARIABLES
    pc,                     \* position of the call being modelled
    name,                   \* normalizeServiceName: argument
    normalized,             \* normalizeServiceName(name)
    renormalized,           \* normalizeServiceName(normalized)
    str1, str2,             \* calculateSimilarity: arguments
    similarity,             \* calculateSimilarity(str1, str2)
    swapped,                \* calculateSimilarity(str2, str1)
    dates,                  \* detectFrequency: argument (day numbers)
    frequency,              \* detectFrequency(dates)
    subscriptions,          \* calculateTotals: argument
    totals,                 \* calculateTotals(subscriptions)
    transactions,           \* detectRecurringTransactions: first argument
    minOccurrences,         \* detectRecurringTransactions: second argument
    detectedSubscriptions,  \* detectRecurringTransactions(transactions, minOccurrences)
    timeZone,               \* the time zone of the server process
    knownSubscriptions,     \* the module-level table KNOWN_SUBSCRIPTIONS
    detectedAgain,          \* the result of a second call on the same array
    serviceName,            \* getCancellationLink: argument
    curatedEntry,           \* getCancellationLink: findCancellationEntry(serviceName)
    bestMatch,              \* getCancellationLink: bestMatch and bestScore after the loop
    cancellationLink,       \* what the promise of getCancellationLink settles to
    stored,                 \* the store: db.transactions as the file holds it
    storedBefore,           \* db.transactions before the last call on the store
    lastCall,               \* the last call on the store: arguments and return value
    calls,                  \* the number of calls on the store so far
    clock,                  \* the day on the server's clock
    nextId,                 \* the number of the next identifier generateId makes
    recurring,              \* the recurring list last read from the store
    subscriptionRow,        \* the row of the subscriptions table the visits name
    firstRow,               \* that row before the first request
    visitRequests,          \* each visit request: its position, body and `current`
    visitClock,             \* the server's clock while visits are recorded
    subscriptionCache,      \* the tracker's module-level array `subscriptions`
    openSubscriptionTabs,   \* the tracker's Map of tracked tabs
    pendingTimeUpdates,     \* the tracker's Map of seconds not yet saved
    lastVisitCounted,       \* the tracker's Map of the last counted visits
    tasks,                  \* the tracker's async functions waiting for a response
    backend,                \* visit_count and total_time_seconds as the backend holds them
    trackerNow,             \* Date.now() in the tracker
    trackerEvents,          \* the number of events the tracker has taken up
    trackerTicks,           \* the number of times the tracker's clock has moved
    trackedSeconds,         \* per subscription, the seconds its tabs have been tracked
    visitsSent              \* per subscription, the times a visit increment was sent

normalizeVars == <<name, normalized, renormalized>>
similarityVars == <<str1, str2, similarity, swapped>>
frequencyVars == <<dates, frequency>>
totalsVars == <<subscriptions, totals>>
detectVars ==
    <<transactions, minOccurrences, detectedSubscriptions, timeZone, knownSubscriptions,
      detectedAgain>>

lookupVars == <<serviceName, curatedEntry, bestMatch, cancellationLink>>

storeVars == <<stored, storedBefore, lastCall, calls, clock, nextId, recurring>>
visitVars == <<subscriptionRow, firstRow, visitRequests, visitClock>>
trackerVars ==
    <<subscriptionCache, openSubscriptionTabs, pendingTimeUpdates, lastVisitCounted, tasks,
      backend, trackerNow, trackerEvents, trackerTicks, trackedSeconds, visitsSent>>

vars ==
    <<pc, normalizeVars, similarityVars, frequencyVars, totalsVars, detectVars, lookupVars,
      storeVars, visitVars, trackerVars>>

Max(a, b) == IF a >= b THEN a ELSE b
Min(a, b) == IF a <= b THEN a ELSE b

(***************************************************************************)
(* Characters and strings                                                  *)
(***************************************************************************)
Ch(s, i) == SubSeq(s, i, i)

LowerAlpha == "abcdefghijklmnopqrstuvwxyz"
UpperAlpha == "ABCDEFGHIJKLMNOPQRSTUVWXYZ"
Digits == "0123456789"

LowerSet == {Ch(LowerAlpha, i) : i \in 1..Len(LowerAlpha)}
UpperSet == {Ch(UpperAlpha, i) : i \in 1..Len(UpperAlpha)}
DigitSet == {Ch(Digits, i) : i \in 1..Len(Digits)}
UpperToLower ==
    [c \in UpperSet |->
        Ch(LowerAlpha, CHOOSE i \in 1..Len(UpperAlpha) : Ch(UpperAlpha, i) = c)]

IsSpace(c) == c \in {" ", "\t", "\n"}
IsLower(c) == c \in LowerSet
IsUpper(c) == c \in UpperSet
IsDigit(c) == c \in DigitSet

LowerChar(c) == IF c \in UpperSet THEN UpperToLower[c] ELSE c

RECURSIVE toLowerCase(_)
toLowerCase(s) ==
    IF s = "" THEN "" ELSE LowerChar(Head(s)) \o toLowerCase(Tail(s))

\* String.prototype.trim: drop leading and trailing whitespace
trim(s) ==
    LET keep == {i \in 1..Len(s) : ~IsSpace(Ch(s, i))}
    IN  IF keep = {} THEN ""
        ELSE SubSeq(s, CHOOSE i \in keep : \A j \in keep : i <= j,
                       CHOOSE i \in keep : \A j \in keep : j <= i)

EndsWith(s, w) == Len(s) >= Len(w) /\ SubSeq(s, Len(s) - Len(w) + 1, Len(s)) = w

\* s.replace(/\s+(w1|w2|...)$/gi, ''): when s ends in a run of whitespace
\* followed by one of the words, the leftmost match starts at the first
\* character of that run; the match reaches the end, so it is replaced once.
StripTrailingWord(s, words) ==
    LET hits == {w \in words : /\ EndsWith(s, w)
                               /\ Len(s) > Len(w)
                               /\ IsSpace(Ch(s, Len(s) - Len(w)))}
    IN  IF hits = {} THEN s
        ELSE LET starts == {p \in 1..Len(s) :
                              \E w \in hits :
                                 /\ p <= Len(s) - Len(w)
                                 /\ \A q \in p..(Len(s) - Len(w)) : IsSpace(Ch(s, q))}
                 first == CHOOSE p \in starts : \A q \in starts : p <= q
             IN  SubSeq(s, 1, first - 1)

\* s.replace(/\.(e1|e2|...)$/gi, '')
StripTrailingDomain(s, exts) ==
    LET hits == {e \in exts : EndsWith(s, "." \o e)}
    IN  IF hits = {} THEN s
        ELSE LET e == CHOOSE e \in hits : \A f \in hits : Len(f) <= Len(e)
             IN  SubSeq(s, 1, Len(s) - Len(e) - 1)

\* s.replace(/[^a-z0-9\s]/g, '')
RECURSIVE RemoveSpecial(_)
RemoveSpecial(s) ==
    IF s = "" THEN ""
    ELSE LET c == Head(s)
         IN  (IF IsLower(c) \/ IsDigit(c) \/ IsSpace(c) THEN c ELSE "")
                \o RemoveSpecial(Tail(s))

\* s.replace(/\s+/g, r): every run of whitespace becomes r
RECURSIVE ReplaceSpaceRuns(_, _)
ReplaceSpaceRuns(s, r) ==
    IF s = "" THEN ""
    ELSE IF IsSpace(Head(s))
         THEN IF Len(s) >= 2 /\ IsSpace(Ch(s, 2))
              THEN ReplaceSpaceRuns(Tail(s), r)
              ELSE r \o ReplaceSpaceRuns(Tail(s), r)
         ELSE Head(s) \o ReplaceSpaceRuns(Tail(s), r)

CollapseSpaces(s) == ReplaceSpaceRuns(s, " ")

(***************************************************************************)
(* normalizeServiceName                                                    *)
(***************************************************************************)
BusinessSuffixes ==
    {"inc", "inc.", "llc", "corp", "corp.", "ltd", "ltd.", "limited",
     "corporation", "company"}
PlanWords == {"subscription", "premium", "plus", "pro", "basic", "standard"}
DomainExtensions == {"com", "net", "org", "io", "co", "tv"}

SPECIAL_CASES ==
    [k \in {"youtube premium", "youtube music", "prime video", "amazon prime",
            "disney+", "disney plus", "hbo max", "hbo", "apple tv+", "apple tv",
            "hulu", "paramount+", "paramount plus", "peacock", "espn+",
            "chatgpt", "chatgpt plus", "openai"} |->
        CASE k = "youtube premium" -> "YouTube"
          [] k = "youtube music"   -> "YouTube Music"
          [] k = "prime video"     -> "Amazon Prime Video"
          [] k = "amazon prime"    -> "Amazon Prime"
          [] k = "disney+"         -> "Disney Plus"
          [] k = "disney plus"     -> "Disney Plus"
          [] k = "hbo max"         -> "Max"
          [] k = "hbo"             -> "Max"
          [] k = "apple tv+"       -> "Apple TV Plus"
          [] k = "apple tv"        -> "Apple TV Plus"
          [] k = "hulu"            -> "Hulu"
          [] k = "paramount+"      -> "Paramount Plus"
          [] k = "paramount plus"  -> "Paramount Plus"
          [] k = "peacock"         -> "Peacock"
          [] k = "espn+"           -> "ESPN Plus"
          [] k = "chatgpt"         -> "ChatGPT"
          [] k = "chatgpt plus"    -> "ChatGPT"
          [] k = "openai"          -> "ChatGPT"]

\* the chain of replacements before the special-case table is consulted
MechanicalNormalize(s) ==
    trim(CollapseSpaces(RemoveSpecial(
        StripTrailingDomain(
            StripTrailingWord(
                StripTrailingWord(trim(toLowerCase(s)), BusinessSuffixes),
                PlanWords),
            DomainExtensions))))

\* The names made of a-z, 0-9 and spaces that an object literal inherits
\* from Object.prototype: SPECIAL_CASES[name] is then a function, which is
\* truthy and has no toLowerCase.
InheritedNames == {"constructor"}
TypeError == "TypeError: SPECIAL_CASES[lowerNormalized].toLowerCase is not a function"

\* the normalized name, or TypeError when the call throws
normalizeServiceName(s) ==
    IF s = "" THEN ""
    ELSE LET mechanical == MechanicalNormalize(s)
             lowerNormalized == toLowerCase(mechanical)
         IN  IF lowerNormalized \in DOMAIN SPECIAL_CASES
             THEN toLowerCase(SPECIAL_CASES[lowerNormalized])
             ELSE IF lowerNormalized \in InheritedNames THEN TypeError
             ELSE mechanical

(***************************************************************************)
(* levenshteinDistance, calculateSimilarity                                *)
(***************************************************************************)
\* Row i of the matrix from row i - 1 (prev), filled from j = 1 on; entry j
\* of a row is at index j + 1.  equalCost is the cost of a substitution of a
\* character by itself.
RECURSIVE MatrixRow(_, _, _, _, _, _)
MatrixRow(prev, c, s2, j, row, equalCost) ==
    IF j > Len(s2) THEN row
    ELSE LET cost == IF c = Ch(s2, j) THEN equalCost ELSE 1
         IN  MatrixRow(prev, c, s2, j + 1,
                       Append(row, Min(Min(prev[j + 1] + 1,     \* deletion
                                           row[j] + 1),         \* insertion
                                       prev[j] + cost)),        \* substitution
                       equalCost)

\* the last row of the matrix; each row is complete before the next starts
RECURSIVE MatrixRows(_, _, _, _, _)
MatrixRows(s1, s2, i, prev, equalCost) ==
    IF i > Len(s1) THEN prev
    ELSE LET row == MatrixRow(prev, Ch(s1, i), s2, 1, <<i>>, equalCost)
         IN  IF Len(row) = Len(s2) + 1
             THEN MatrixRows(s1, s2, i + 1, row, equalCost)
             ELSE <<>>

\* faulty variant: the substitution cost is 1 even when the characters are equal
levenshteinDistance_CostAlwaysOne(s1, s2) ==
    MatrixRows(s1, s2, 1, [j \in 1..(Len(s2) + 1) |-> j - 1], 1)[Len(s2) + 1]

\* the dynamic-programming matrix: first row and first column, then the
\* rest row by row; the result is matrix[len1][len2]
levenshteinDistance(s1, s2) ==
    MatrixRows(s1, s2, 1, [j \in 1..(Len(s2) + 1) |-> j - 1], 0)[Len(s2) + 1]

\* Math.round(n / d) for d > 0: the nearest integer, halves rounded up
MathRound(n, d) == (2 * n + d) \div (2 * d)

\* faulty variant: maxLength is the first string's length
calculateSimilarity_FirstLength(s1, s2) ==
    IF s1 = s2 THEN 100
    ELSE IF s1 = "" \/ s2 = "" THEN 0
    ELSE LET distance == levenshteinDistance(s1, s2)
             maxLength == Len(s1)
         IN  IF maxLength = 0 THEN 100
             ELSE MathRound((maxLength - distance) * 100, maxLength)

\* faulty variant: the identity shortcut is missing
calculateSimilarity_NoIdentity(s1, s2) ==
    IF s1 = "" \/ s2 = "" THEN 0
    ELSE LET distance == levenshteinDistance(s1, s2)
             maxLength == Max(Len(s1), Len(s2))
         IN  IF maxLength = 0 THEN 100
             ELSE MathRound((maxLength - distance) * 100, maxLength)

calculateSimilarity(s1, s2) ==
    IF s1 = s2 THEN 100
    ELSE IF s1 = "" \/ s2 = "" THEN 0
    ELSE LET distance == levenshteinDistance(s1, s2)
             maxLength == Max(Len(s1), Len(s2))
         IN  IF maxLength = 0 THEN 100
             ELSE MathRound((maxLength - distance) * 100, maxLength)

(***************************************************************************)
(* The curated table CURATED_CANCELLATIONS, in the order of Object.values, *)
(* and the lookup getCancellationLink.                                     *)
(***************************************************************************)
CURATED_CANCELLATIONS == <<
    [key |-> "netflix", name |-> "Netflix",
     url |-> "https://www.netflix.com/cancelplan",
     notes |-> "Log in to your account, then visit this page to cancel your membership.",
     aliases |-> << "netflix.com", "netflix inc" >>],
    [key |-> "spotify", name |-> "Spotify",
     url |-> "https://www.spotify.com/account/subscription/",
     notes |-> "Go to your account page and click \"Change plan\" or \"Cancel Premium\".",
     aliases |-> << "spotify.com", "spotify premium", "spotify ab" >>],
    [key |-> "disney+", name |-> "Disney+",
     url |-> "https://www.disneyplus.com/account/subscription",
     notes |-> "Sign in, go to Account settings, and select \"Cancel Subscription\".",
     aliases |-> << "disney plus", "disneyplus", "disneyplus.com", "disney" >>],
    [key |-> "hulu", name |-> "Hulu",
     url |-> "https://www.hulu.com/account",
     notes |-> "Go to Account page, click your name, select \"Cancel\" under your subscription.",
     aliases |-> << "hulu.com", "hulu llc" >>],
    [key |-> "max", name |-> "Max (HBO Max)",
     url |-> "https://max.com/account/subscription",
     notes |-> "Previously HBO Max. Go to your account and manage subscription.",
     aliases |-> << "hbo max", "hbo", "hbomax", "max.com" >>],
    [key |-> "amazon prime video", name |-> "Amazon Prime Video",
     url |-> "https://www.amazon.com/gp/video/settings/managemembership",
     notes |-> "Manage your Prime Video membership or Prime membership.",
     aliases |-> << "prime video", "amazon video", "primevideo", "amazon.com" >>],
    [key |-> "apple tv+", name |-> "Apple TV+",
     url |-> "https://tv.apple.com/settings",
     notes |-> "Go to Settings, then Subscriptions to manage Apple TV+.",
     aliases |-> << "apple tv", "apple tv plus", "appletv", "tv.apple.com" >>],
    [key |-> "youtube premium", name |-> "YouTube Premium",
     url |-> "https://www.youtube.com/paid_memberships",
     notes |-> "Manage your YouTube Premium membership and recurring payments.",
     aliases |-> << "youtube", "youtube music", "yt premium", "youtube.com" >>],
    [key |-> "peacock", name |-> "Peacock",
     url |-> "https://www.peacocktv.com/account/subscriptions",
     notes |-> "Manage your Peacock subscription in account settings.",
     aliases |-> << "peacock tv", "peacocktv", "peacocktv.com" >>],
    [key |-> "paramount+", name |-> "Paramount+",
     url |-> "https://www.paramountplus.com/account/subscription/",
     notes |-> "Go to Account and select your subscription to cancel.",
     aliases |-> << "paramount plus", "paramount", "paramountplus" >>],
    [key |-> "crunchyroll", name |-> "Crunchyroll",
     url |-> "https://www.crunchyroll.com/acct/?action=premium",
     notes |-> "Go to Premium Settings to cancel your membership.",
     aliases |-> << "crunchyroll.com", "crunchyroll premium" >>],
    [key |-> "chatgpt", name |-> "ChatGPT Plus",
     url |-> "https://chat.openai.com/settings/billing",
     notes |-> "Go to Settings > Billing to cancel ChatGPT Plus subscription.",
     aliases |-> << "openai", "chatgpt plus", "chat gpt", "gpt" >>],
    [key |-> "adobe creative cloud", name |-> "Adobe Creative Cloud",
     url |-> "https://account.adobe.com/plans",
     notes |-> "Manage your Adobe plans and subscriptions.",
     aliases |-> << "adobe", "creative cloud", "adobe cc", "photoshop", "adobe.com" >>],
    [key |-> "microsoft 365", name |-> "Microsoft 365",
     url |-> "https://account.microsoft.com/services/",
     notes |-> "Manage your Microsoft subscriptions including Office 365.",
     aliases |-> << "office 365", "ms 365", "microsoft office", "microsoft.com" >>],
    [key |-> "dropbox", name |-> "Dropbox",
     url |-> "https://www.dropbox.com/account/plan",
     notes |-> "Go to Settings > Plan to downgrade or cancel.",
     aliases |-> << "dropbox.com", "dropbox plus", "dropbox professional" >>],
    [key |-> "zoom", name |-> "Zoom",
     url |-> "https://zoom.us/billing",
     notes |-> "Go to Billing to manage or cancel your Zoom subscription.",
     aliases |-> << "zoom.us", "zoom meetings", "zoom pro" >>],
    [key |-> "slack", name |-> "Slack",
     url |-> "https://slack.com/help/articles/218915077-Manage-your-billing",
     notes |-> "Workspace owners can manage billing and subscriptions.",
     aliases |-> << "slack.com", "slack workspace" >>],
    [key |-> "notion", name |-> "Notion",
     url |-> "https://www.notion.so/my-account/settings",
     notes |-> "Go to Settings & Members > Billing to manage your plan.",
     aliases |-> << "notion.so", "notion labs" >>],
    [key |-> "canva", name |-> "Canva Pro",
     url |-> "https://www.canva.com/settings/billing-settings",
     notes |-> "Go to Account Settings > Billing & Teams to manage subscription.",
     aliases |-> << "canva", "canva.com", "canva pro" >>],
    [key |-> "apple music", name |-> "Apple Music",
     url |-> "https://music.apple.com/settings",
     notes |-> "Go to Settings > Subscriptions to cancel Apple Music.",
     aliases |-> << "applemusic", "apple music app" >>],
    [key |-> "tidal", name |-> "Tidal",
     url |-> "https://listen.tidal.com/account",
     notes |-> "Go to Account > Subscription to manage or cancel.",
     aliases |-> << "tidal.com", "tidal music" >>],
    [key |-> "xbox game pass", name |-> "Xbox Game Pass",
     url |-> "https://account.microsoft.com/services/",
     notes |-> "Manage Xbox Game Pass through Microsoft account services.",
     aliases |-> << "xbox", "game pass", "xbox live", "xbox.com" >>],
    [key |-> "playstation plus", name |-> "PlayStation Plus",
     url |-> "https://www.playstation.com/account/subscriptions/",
     notes |-> "Manage PS Plus subscriptions in your PlayStation account.",
     aliases |-> << "ps plus", "psn", "playstation", "playstation.com" >>],
    [key |-> "nintendo switch online", name |-> "Nintendo Switch Online",
     url |-> "https://ec.nintendo.com/my/subscriptions",
     notes |-> "Manage your Nintendo Switch Online membership.",
     aliases |-> << "nintendo", "switch online", "nintendo.com" >>],
    [key |-> "planet fitness", name |-> "Planet Fitness",
     url |-> "https://www.planetfitness.com/gyms",
     notes |-> "Contact your home club or visit in person to cancel. Some require certified letter.",
     aliases |-> << "planet fitness gym", "planetfitness" >>],
    [key |-> "peloton", name |-> "Peloton",
     url |-> "https://my.onepeloton.com/subscriptions",
     notes |-> "Manage your Peloton membership subscriptions.",
     aliases |-> << "peloton.com", "peloton membership" >>],
    [key |-> "new york times", name |-> "The New York Times",
     url |-> "https://myaccount.nytimes.com/seg/settings",
     notes |-> "Manage your NYT subscription in account settings.",
     aliases |-> << "nyt", "nytimes", "ny times", "nytimes.com" >>],
    [key |-> "wall street journal", name |-> "The Wall Street Journal",
     url |-> "https://customercenter.wsj.com/",
     notes |-> "Contact customer service or manage subscription online.",
     aliases |-> << "wsj", "wall street journal", "wsj.com" >>],
    [key |-> "google one", name |-> "Google One",
     url |-> "https://one.google.com/settings",
     notes |-> "Manage your Google One storage plan and subscription.",
     aliases |-> << "google storage", "google drive", "google.com" >>],
    [key |-> "icloud", name |-> "iCloud+",
     url |-> "https://www.icloud.com/settings/",
     notes |-> "Manage iCloud storage plan through Apple ID settings.",
     aliases |-> << "icloud storage", "icloud plus", "apple icloud" >>] >>

\* getNormalizedKey: lower case, trim, drop everything but a-z, 0-9 and
\* whitespace, collapse whitespace, trim
getNormalizedKey(service) ==
    trim(CollapseSpaces(RemoveSpecial(trim(toLowerCase(service)))))

\* CURATED_CANCELLATIONS['constructor'] is the function Object, inherited
\* from Object.prototype: its name is 'Object', it has no url, notes, aliases
InheritedEntry ==
    [key |-> "constructor", name |-> "Object", url |-> "", notes |-> "", aliases |-> <<>>]

NoEntry == [key |-> "", name |-> "", url |-> "", notes |-> "", aliases |-> <<>>]

Entries == 1..Len(CURATED_CANCELLATIONS)

\* the entries with an alias whose normalized key is the query's
AliasMatches(normalizedKey) ==
    {i \in Entries :
        \E a \in 1..Len(CURATED_CANCELLATIONS[i].aliases) :
            getNormalizedKey(CURATED_CANCELLATIONS[i].aliases[a]) = normalizedKey}

\* faulty variant: the direct match only
findCancellationEntry_KeysOnly(service) ==
    LET normalizedKey == getNormalizedKey(service)
    IN  IF \E i \in Entries : CURATED_CANCELLATIONS[i].key = normalizedKey
        THEN CURATED_CANCELLATIONS[
                 CHOOSE i \in Entries : CURATED_CANCELLATIONS[i].key = normalizedKey]
        ELSE NoEntry

\* findCancellationEntry: the direct match, then the first entry with a
\* matching alias, else null (NoEntry)
findCancellationEntry(service) ==
    LET normalizedKey == getNormalizedKey(service)
        byAlias == AliasMatches(normalizedKey)
    IN  IF \E i \in Entries : CURATED_CANCELLATIONS[i].key = normalizedKey
        THEN CURATED_CANCELLATIONS[
                 CHOOSE i \in Entries : CURATED_CANCELLATIONS[i].key = normalizedKey]
        ELSE IF normalizedKey \in InheritedNames THEN InheritedEntry
        ELSE IF byAlias # {}
        THEN CURATED_CANCELLATIONS[CHOOSE i \in byAlias : \A j \in byAlias : i <= j]
        ELSE NoEntry

\* the loop over entry.aliases: Math.max of the scores, from 0
RECURSIVE AliasScore(_, _, _)
AliasScore(query, aliases, a) ==
    IF a > Len(aliases) THEN 0
    ELSE Max(calculateSimilarity(query, normalizeServiceName(aliases[a])),
             AliasScore(query, aliases, a + 1))

\* score = Math.max(nameScore, aliasScore) of entry i
EntryScore(query, i) ==
    Max(calculateSimilarity(query, normalizeServiceName(CURATED_CANCELLATIONS[i].name)),
        AliasScore(query, CURATED_CANCELLATIONS[i].aliases, 1))

\* faulty variant: an equal score replaces the best match
RECURSIVE BestMatch_LastWins(_, _, _)
BestMatch_LastWins(query, i, best) ==
    IF i > Len(CURATED_CANCELLATIONS) THEN best
    ELSE LET score == EntryScore(query, i)
         IN  BestMatch_LastWins(query, i + 1,
                                IF score >= best.score THEN [match |-> i, score |-> score]
                                ELSE best)

\* the loop over entries from index i on; best is bestMatch (the index of
\* the entry, 0 for null) and bestScore
RECURSIVE BestMatch(_, _, _)
BestMatch(query, i, best) ==
    IF i > Len(CURATED_CANCELLATIONS) THEN best
    ELSE LET score == EntryScore(query, i)
         IN  BestMatch(query, i + 1,
                       IF score > best.score THEN [match |-> i, score |-> score]
                       ELSE best)

\* what the promise of getCancellationLink settles to: null, a link, or a
\* rejection with the TypeError thrown by normalizeServiceName
Null == [returned |-> "null"]
Rejected == [returned |-> "TypeError"]
CancellationLink(entry, score) ==
    [returned |-> "link", serviceName |-> entry.name, url |-> entry.url,
     notes |-> entry.notes, matchScore |-> score, source |-> "curated"]

\* bestMatch = null, bestScore = 0
NoBest == [match |-> 0, score |-> 0]

\* faulty variant: a best score of 75 is good enough
FuzzyResult_AtLeast(best) ==
    IF best.match # 0 /\ best.score >= 75
    THEN CancellationLink(CURATED_CANCELLATIONS[best.match], best.score)
    ELSE Null

\* if (bestMatch && bestScore > 75) return the link; return null
FuzzyResult(best) ==
    IF best.match # 0 /\ best.score > 75
    THEN CancellationLink(CURATED_CANCELLATIONS[best.match], best.score)
    ELSE Null

\* the fuzzy stage: bestMatch and bestScore after the loop, or Rejected
FuzzyStage(service) ==
    LET query == normalizeServiceName(service)
    IN  IF query = TypeError THEN Rejected
        ELSE BestMatch(query, 1, NoBest)

\* getCancellationLink, with its locals when it returns: the guard on an
\* empty name, the exact stage, then the fuzzy stage
LookupRun(service) ==
    IF service = "" \/ trim(service) = ""
    THEN [curatedEntry |-> NoEntry, bestMatch |-> NoBest, settled |-> Null]
    ELSE LET entry == findCancellationEntry(service)
         IN  IF entry # NoEntry
             THEN [curatedEntry |-> entry, bestMatch |-> NoBest,
                   settled |-> CancellationLink(entry, 100)]
             ELSE LET best == FuzzyStage(service)
                  IN  IF best = Rejected
                      THEN [curatedEntry |-> NoEntry, bestMatch |-> NoBest,
                            settled |-> Rejected]
                      ELSE [curatedEntry |-> NoEntry, bestMatch |-> best,
                            settled |-> FuzzyResult(best)]

getCancellationLink(service) == LookupRun(service).settled

(***************************************************************************)
(* Array.prototype.sort with a consistent comparator (stable): the element *)
(* at index i goes after every element with a smaller key and after the    *)
(* earlier elements with the same key.                                     *)
(***************************************************************************)
StableSortByKey(seq, key) ==
    LET n == Len(seq)
        rank(i) == 1 + Cardinality({j \in 1..n :
                          key[j] < key[i] \/ (key[j] = key[i] /\ j < i)})
    IN  [p \in 1..n |-> seq[CHOOSE i \in 1..n : rank(i) = p]]

(***************************************************************************)
(* detectFrequency: dates are day numbers (new Date('YYYY-MM-DD') is UTC   *)
(* midnight, so a gap is a whole number of days).  avgGap is               *)
(* totalGap / (n - 1); avgGap <= k is compared as totalGap <= k * (n - 1). *)
(***************************************************************************)
RECURSIVE TotalGap(_, _)
TotalGap(sorted, i) ==
    IF i > Len(sorted) THEN 0
    ELSE (sorted[i] - sorted[i - 1]) + TotalGap(sorted, i + 1)

\* faulty variant: the bucket boundaries are exclusive
detectFrequency_Exclusive(ds) ==
    IF Len(ds) < 2 THEN "UNKNOWN"
    ELSE LET sorted == StableSortByKey(ds, ds)
             totalGap == TotalGap(sorted, 2)
             gaps == Len(ds) - 1
         IN  IF totalGap < 10 * gaps THEN "WEEKLY"
             ELSE IF totalGap < 20 * gaps THEN "BIWEEKLY"
             ELSE IF totalGap < 45 * gaps THEN "MONTHLY"
             ELSE IF totalGap < 400 * gaps THEN "ANNUALLY"
             ELSE "UNKNOWN"

\* faulty variant: a mean gap of more than 45 days has no bucket
detectFrequency_UpToMonthly(ds) ==
    IF Len(ds) < 2 THEN "UNKNOWN"
    ELSE LET sorted == StableSortByKey(ds, ds)
             totalGap == TotalGap(sorted, 2)
             gaps == Len(ds) - 1
         IN  IF totalGap <= 10 * gaps THEN "WEEKLY"
             ELSE IF totalGap <= 20 * gaps THEN "BIWEEKLY"
             ELSE IF totalGap <= 45 * gaps THEN "MONTHLY"
             ELSE "UNKNOWN"

detectFrequency(ds) ==
    IF Len(ds) < 2 THEN "UNKNOWN"
    ELSE LET sorted == StableSortByKey(ds, ds)
             totalGap == TotalGap(sorted, 2)
             gaps == Len(ds) - 1
         IN  IF totalGap <= 10 * gaps THEN "WEEKLY"
             ELSE IF totalGap <= 20 * gaps THEN "BIWEEKLY"
             ELSE IF totalGap <= 45 * gaps THEN "MONTHLY"
             ELSE IF totalGap <= 400 * gaps THEN "ANNUALLY"
             ELSE "UNKNOWN"

(***************************************************************************)
(* Calendar: a date 'YYYY-MM-DD' is the number of days since 2023-01-01.   *)
(***************************************************************************)
IsLeap(y) == (y % 4 = 0 /\ y % 100 # 0) \/ y % 400 = 0
DaysInYear(y) == IF IsLeap(y) THEN 366 ELSE 365
DaysInMonth(y, m) ==
    IF m = 2 THEN (IF IsLeap(y) THEN 29 ELSE 28)
    ELSE IF m \in {4, 6, 9, 11} THEN 30 ELSE 31

RECURSIVE DaysBeforeYear(_)
DaysBeforeYear(y) ==
    IF y <= 2023 THEN 0 ELSE DaysBeforeYear(y - 1) + DaysInYear(y - 1)

RECURSIVE DaysBeforeMonth(_, _)
DaysBeforeMonth(y, m) ==
    IF m <= 1 THEN 0 ELSE DaysBeforeMonth(y, m - 1) + DaysInMonth(y, m - 1)

\* getFullYear / getMonth (1..12 here) / getDate of a day number
YearOf(day) ==
    CHOOSE y \in 2023..2040 : DaysBeforeYear(y) <= day /\ day < DaysBeforeYear(y + 1)
MonthOf(day) ==
    LET y == YearOf(day)
        doy == day - DaysBeforeYear(y)
    IN  CHOOSE m \in 1..12 :
            DaysBeforeMonth(y, m) <= doy /\ doy < DaysBeforeMonth(y, m) + DaysInMonth(y, m)
DateOf(day) == day - DaysBeforeYear(YearOf(day)) - DaysBeforeMonth(YearOf(day), MonthOf(day)) + 1

\* the day number of year y, month m (13 is January of y + 1), day d; a day
\* past the end of the month runs over into the following month
MakeDay(y, m, d) ==
    LET yy == IF m > 12 THEN y + 1 ELSE y
        mm == IF m > 12 THEN m - 12 ELSE m
    IN  DaysBeforeYear(yy) + DaysBeforeMonth(yy, mm) + (d - 1)

NoDate == -1

(***************************************************************************)
(* The server's time zone.  new Date('YYYY-MM-DD') is midnight UTC, while  *)
(* getDate / setDate, getMonth / setMonth and getFullYear / setFullYear    *)
(* read and write the local calendar fields and toISOString converts back  *)
(* to UTC.  An instant is a number of hours since 2023-01-01T00:00Z (a     *)
(* Sunday); a zone is its standard offset in hours east of Greenwich and   *)
(* its daylight-saving rule.                                               *)
(***************************************************************************)
UTC == [std |-> 0, rule |-> "none"]
Vancouver == [std |-> -8, rule |-> "US"]
Berlin == [std |-> 1, rule |-> "EU"]

SundayOnOrAfter(day) == day + ((7 - (day % 7)) % 7)
SundayOnOrBefore(day) == day - (day % 7)

\* the instant daylight time starts in year y: 02:00 local on the second
\* Sunday of March (US), 01:00 UTC on the last Sunday of March (EU)
DstStart(zone, y) ==
    IF zone.rule = "US" THEN 24 * SundayOnOrAfter(MakeDay(y, 3, 8)) + 2 - zone.std
    ELSE 24 * SundayOnOrBefore(MakeDay(y, 3, 31)) + 1

\* the instant it ends: 02:00 local daylight time on the first Sunday of
\* November (US), 01:00 UTC on the last Sunday of October (EU)
DstEnd(zone, y) ==
    IF zone.rule = "US" THEN 24 * SundayOnOrAfter(MakeDay(y, 11, 1)) + 1 - zone.std
    ELSE 24 * SundayOnOrBefore(MakeDay(y, 10, 31)) + 1

InDst(zone, instant) ==
    /\ zone.rule # "none"
    /\ LET y == YearOf(instant \div 24)
       IN  DstStart(zone, y) <= instant /\ instant < DstEnd(zone, y)

\* the local wall-clock hour of an instant, and the instant of a wall-clock
\* hour (a skipped hour is read with the offset before the change, a repeated
\* hour as its first occurrence)
LocalHour(zone, instant) ==
    instant + zone.std + (IF InDst(zone, instant) THEN 1 ELSE 0)
InstantOf(zone, wall) ==
    IF InDst(zone, wall - zone.std - 1) THEN wall - zone.std - 1 ELSE wall - zone.std

\* faulty variant: a month is 30 days
projectNextDate_ThirtyDays(lastDate, freq, zone) ==
    CASE freq = "WEEKLY"   -> lastDate + 7
      [] freq = "BIWEEKLY" -> lastDate + 14
      [] freq = "MONTHLY"  -> lastDate + 30
      [] freq = "ANNUALLY" -> lastDate + 365
      [] OTHER             -> NoDate

\* projectNextDate: lastDate parsed as midnight UTC, its local calendar
\* fields advanced (a day or month past the end runs over), the local
\* time of day kept, and the UTC date of the result returned
projectNextDate(lastDate, freq, zone) ==
    LET local == LocalHour(zone, 24 * lastDate)
        day == local \div 24
        hour == local % 24
        y == YearOf(day)
        m == MonthOf(day)
        d == DateOf(day)
        next == CASE freq = "WEEKLY"   -> MakeDay(y, m, d + 7)
                  [] freq = "BIWEEKLY" -> MakeDay(y, m, d + 14)
                  [] freq = "MONTHLY"  -> MakeDay(y, m + 1, d)
                  [] freq = "ANNUALLY" -> MakeDay(y + 1, m, d)
                  [] OTHER             -> NoDate
    IN  IF next = NoDate THEN NoDate
        ELSE InstantOf(zone, 24 * next + hour) \div 24

(***************************************************************************)
(* KNOWN_SUBSCRIPTIONS, in the order of Object.entries; "" stands for an   *)
(* undefined logo or url.                                                  *)
(***************************************************************************)
KNOWN_SUBSCRIPTIONS == <<
    [key |-> "netflix", name |-> "Netflix", category |-> "ENTERTAINMENT",
     logo |-> "https://logo.clearbit.com/netflix.com",
     url |-> "https://netflix.com"],
    [key |-> "spotify", name |-> "Spotify", category |-> "ENTERTAINMENT",
     logo |-> "https://logo.clearbit.com/spotify.com",
     url |-> "https://spotify.com"],
    [key |-> "apple", name |-> "Apple", category |-> "SOFTWARE",
     logo |-> "https://logo.clearbit.com/apple.com",
     url |-> "https://apple.com"],
    [key |-> "amazon prime", name |-> "Amazon Prime", category |-> "ENTERTAINMENT",
     logo |-> "https://logo.clearbit.com/amazon.com",
     url |-> "https://amazon.com/prime"],
    [key |-> "amazon", name |-> "Amazon", category |-> "ENTERTAINMENT",
     logo |-> "https://logo.clearbit.com/amazon.com",
     url |-> "https://amazon.com"],
    [key |-> "hulu", name |-> "Hulu", category |-> "ENTERTAINMENT",
     logo |-> "https://logo.clearbit.com/hulu.com",
     url |-> "https://hulu.com"],
    [key |-> "disney", name |-> "Disney+", category |-> "ENTERTAINMENT",
     logo |-> "https://logo.clearbit.com/disneyplus.com",
     url |-> "https://disneyplus.com"],
    [key |-> "hbo", name |-> "HBO Max", category |-> "ENTERTAINMENT",
     logo |-> "https://logo.clearbit.com/hbomax.com",
     url |-> "https://max.com"],
    [key |-> "youtube", name |-> "YouTube Premium", category |-> "ENTERTAINMENT",
     logo |-> "https://logo.clearbit.com/youtube.com",
     url |-> "https://youtube.com/premium"],
    [key |-> "google", name |-> "Google", category |-> "SOFTWARE",
     logo |-> "https://logo.clearbit.com/google.com",
     url |-> "https://google.com"],
    [key |-> "microsoft", name |-> "Microsoft", category |-> "SOFTWARE",
     logo |-> "https://logo.clearbit.com/microsoft.com",
     url |-> "https://microsoft.com"],
    [key |-> "adobe", name |-> "Adobe Creative Cloud", category |-> "SOFTWARE",
     logo |-> "https://logo.clearbit.com/adobe.com",
     url |-> "https://adobe.com"],
    [key |-> "dropbox", name |-> "Dropbox", category |-> "SOFTWARE",
     logo |-> "https://logo.clearbit.com/dropbox.com",
     url |-> "https://dropbox.com"],
    [key |-> "github", name |-> "GitHub", category |-> "SOFTWARE",
     logo |-> "https://logo.clearbit.com/github.com",
     url |-> "https://github.com"],
    [key |-> "slack", name |-> "Slack", category |-> "SOFTWARE",
     logo |-> "https://logo.clearbit.com/slack.com",
     url |-> "https://slack.com"],
    [key |-> "zoom", name |-> "Zoom", category |-> "SOFTWARE",
     logo |-> "https://logo.clearbit.com/zoom.us",
     url |-> "https://zoom.us"],
    [key |-> "openai", name |-> "OpenAI", category |-> "SOFTWARE",
     logo |-> "https://logo.clearbit.com/openai.com",
     url |-> "https://openai.com"],
    [key |-> "chatgpt", name |-> "ChatGPT Plus", category |-> "SOFTWARE",
     logo |-> "https://logo.clearbit.com/openai.com",
     url |-> "https://chat.openai.com"],
    [key |-> "disney+", name |-> "Disney+", category |-> "ENTERTAINMENT",
     logo |-> "https://logo.clearbit.com/disneyplus.com",
     url |-> "https://disneyplus.com"],
    [key |-> "claude", name |-> "Claude", category |-> "SOFTWARE",
     logo |-> "https://logo.clearbit.com/anthropic.com",
     url |-> "https://claude.ai"],
    [key |-> "anthropic", name |-> "Anthropic", category |-> "SOFTWARE",
     logo |-> "https://logo.clearbit.com/anthropic.com",
     url |-> "https://anthropic.com"],
    [key |-> "gym", name |-> "Gym", category |-> "PERSONAL_CARE",
     logo |-> "",
     url |-> ""],
    [key |-> "fitness", name |-> "Fitness", category |-> "PERSONAL_CARE",
     logo |-> "",
     url |-> ""],
    [key |-> "planet fitness", name |-> "Planet Fitness", category |-> "PERSONAL_CARE",
     logo |-> "https://logo.clearbit.com/planetfitness.com",
     url |-> "https://planetfitness.com"],
    [key |-> "peloton", name |-> "Peloton", category |-> "PERSONAL_CARE",
     logo |-> "https://logo.clearbit.com/peloton.com",
     url |-> "https://peloton.com"],
    [key |-> "starbucks", name |-> "Starbucks", category |-> "FOOD",
     logo |-> "https://logo.clearbit.com/starbucks.com",
     url |-> "https://starbucks.com"],
    [key |-> "uber", name |-> "Uber", category |-> "TRANSPORTATION",
     logo |-> "https://logo.clearbit.com/uber.com",
     url |-> "https://uber.com"],
    [key |-> "lyft", name |-> "Lyft", category |-> "TRANSPORTATION",
     logo |-> "https://logo.clearbit.com/lyft.com",
     url |-> "https://lyft.com"],
    [key |-> "doordash", name |-> "DoorDash", category |-> "FOOD",
     logo |-> "https://logo.clearbit.com/doordash.com",
     url |-> "https://doordash.com"],
    [key |-> "grubhub", name |-> "Grubhub", category |-> "FOOD",
     logo |-> "https://logo.clearbit.com/grubhub.com",
     url |-> "https://grubhub.com"],
    [key |-> "uber eats", name |-> "Uber Eats", category |-> "FOOD",
     logo |-> "https://logo.clearbit.com/ubereats.com",
     url |-> "https://ubereats.com"],
    [key |-> "instacart", name |-> "Instacart", category |-> "FOOD",
     logo |-> "https://logo.clearbit.com/instacart.com",
     url |-> "https://instacart.com"],
    [key |-> "paramount", name |-> "Paramount+", category |-> "ENTERTAINMENT",
     logo |-> "https://logo.clearbit.com/paramountplus.com",
     url |-> "https://paramountplus.com"],
    [key |-> "peacock", name |-> "Peacock", category |-> "ENTERTAINMENT",
     logo |-> "https://logo.clearbit.com/peacocktv.com",
     url |-> "https://peacocktv.com"],
    [key |-> "crunchyroll", name |-> "Crunchyroll", category |-> "ENTERTAINMENT",
     logo |-> "https://logo.clearbit.com/crunchyroll.com",
     url |-> "https://crunchyroll.com"],
    [key |-> "audible", name |-> "Audible", category |-> "ENTERTAINMENT",
     logo |-> "https://logo.clearbit.com/audible.com",
     url |-> "https://audible.com"],
    [key |-> "kindle", name |-> "Kindle Unlimited", category |-> "ENTERTAINMENT",
     logo |-> "https://logo.clearbit.com/amazon.com",
     url |-> "https://amazon.com/kindle-unlimited"],
    [key |-> "notion", name |-> "Notion", category |-> "SOFTWARE",
     logo |-> "https://logo.clearbit.com/notion.so",
     url |-> "https://notion.so"],
    [key |-> "figma", name |-> "Figma", category |-> "SOFTWARE",
     logo |-> "https://logo.clearbit.com/figma.com",
     url |-> "https://figma.com"],
    [key |-> "canva", name |-> "Canva", category |-> "SOFTWARE",
     logo |-> "https://logo.clearbit.com/canva.com",
     url |-> "https://canva.com"],
    [key |-> "linkedin", name |-> "LinkedIn Premium", category |-> "SOFTWARE",
     logo |-> "https://logo.clearbit.com/linkedin.com",
     url |-> "https://linkedin.com/premium"],
    [key |-> "nordvpn", name |-> "NordVPN", category |-> "SOFTWARE",
     logo |-> "https://logo.clearbit.com/nordvpn.com",
     url |-> "https://nordvpn.com"],
    [key |-> "expressvpn", name |-> "ExpressVPN", category |-> "SOFTWARE",
     logo |-> "https://logo.clearbit.com/expressvpn.com",
     url |-> "https://expressvpn.com"],
    [key |-> "1password", name |-> "1Password", category |-> "SOFTWARE",
     logo |-> "https://logo.clearbit.com/1password.com",
     url |-> "https://1password.com"],
    [key |-> "lastpass", name |-> "LastPass", category |-> "SOFTWARE",
     logo |-> "https://logo.clearbit.com/lastpass.com",
     url |-> "https://lastpass.com"],
    [key |-> "bitwarden", name |-> "Bitwarden", category |-> "SOFTWARE",
     logo |-> "https://logo.clearbit.com/bitwarden.com",
     url |-> "https://bitwarden.com"],
    [key |-> "touchstone climbing", name |-> "Touchstone Climbing", category |-> "PERSONAL_CARE",
     logo |-> "https://logo.clearbit.com/touchstoneclimbing.com",
     url |-> "https://touchstoneclimbing.com"],
    [key |-> "sparkfun", name |-> "SparkFun", category |-> "SHOPPING",
     logo |-> "https://logo.clearbit.com/sparkfun.com",
     url |-> "https://sparkfun.com"],
    [key |-> "mcdonalds", name |-> "McDonald's", category |-> "FOOD",
     logo |-> "https://logo.clearbit.com/mcdonalds.com",
     url |-> "https://mcdonalds.com"],
    [key |-> "mcdonald's", name |-> "McDonald's", category |-> "FOOD",
     logo |-> "https://logo.clearbit.com/mcdonalds.com",
     url |-> "https://mcdonalds.com"] >>

\* String.prototype.includes
Includes(s, sub) ==
    \E i \in 1..(Len(s) - Len(sub) + 1) : SubSeq(s, i, i + Len(sub) - 1) = sub

\* findKnownSubscription returned undefined
NoKnownInfo == [key |-> "", name |-> "", category |-> "", logo |-> "", url |-> ""]

\* faulty variant: only the direct match
findKnownSubscription_DirectOnly(known, merchantKey) ==
    IF \E i \in 1..Len(known) : known[i].key = merchantKey
    THEN known[CHOOSE i \in 1..Len(known) : known[i].key = merchantKey]
    ELSE NoKnownInfo

\* the direct match, then the first entry whose key contains the merchant
\* key or is contained in it
findKnownSubscription(known, merchantKey) ==
    LET partial == {i \in 1..Len(known) :
                        Includes(merchantKey, known[i].key) \/ Includes(known[i].key, merchantKey)}
    IN  IF \E i \in 1..Len(known) : known[i].key = merchantKey
        THEN known[CHOOSE i \in 1..Len(known) : known[i].key = merchantKey]
        ELSE IF partial # {}
        THEN known[CHOOSE i \in partial : \A j \in partial : i <= j]
        ELSE NoKnownInfo

(***************************************************************************)
(* detectRecurringTransactions.  A transaction is a record with            *)
(* merchant_name ("" when absent), name, amount (cents), date (day         *)
(* number), pending, created_at and account_id.  Timestamps and dates are  *)
(* compared as strings by the code; a date d is the stamp 2 * d and an ISO *)
(* timestamp taken during day d is the stamp 2 * d + 1, which orders them  *)
(* as the strings are ordered.  created_at = NoDate stands for an absent   *)
(* created_at.                                                             *)
(***************************************************************************)
DateStamp(day) == 2 * day
Abs(x) == IF x < 0 THEN -x ELSE x

MerchantLabel(t) == IF t.merchant_name # "" THEN t.merchant_name ELSE t.name

\* faulty variant: the key is the normalized service name
getMerchantKey_Normalized(t) == normalizeServiceName(MerchantLabel(t))

getMerchantKey(t) == trim(toLowerCase(MerchantLabel(t)))

\* faulty variant: zero amounts are kept
IsCharge_ZeroToo(t) == t.amount >= 0 /\ ~t.pending

\* faulty variant: pending charges are kept
IsCharge_PendingToo(t) == t.amount > 0

IsCharge(t) == t.amount > 0 /\ ~t.pending

\* the key of every charge, in the order of the charges
MerchantKeysOf(charges) == [i \in 1..Len(charges) |-> getMerchantKey(charges[i])]

\* the keys of the Map merchantGroups, in insertion order
RECURSIVE InsertionOrder(_, _)
InsertionOrder(keyOf, i) ==
    IF i > Len(keyOf) THEN <<>>
    ELSE (IF \E j \in 1..(i - 1) : keyOf[j] = keyOf[i] THEN <<>> ELSE <<keyOf[i]>>)
         \o InsertionOrder(keyOf, i + 1)

\* merchantGroups.get(key): the charges with that key, in input order
RECURSIVE MerchantGroup(_, _, _, _)
MerchantGroup(charges, keyOf, key, i) ==
    IF i > Len(charges) THEN <<>>
    ELSE (IF keyOf[i] = key THEN <<charges[i]>> ELSE <<>>)
         \o MerchantGroup(charges, keyOf, key, i + 1)

RECURSIVE SumAmounts(_, _)
SumAmounts(txns, i) ==
    IF i > Len(txns) THEN 0 ELSE txns[i].amount + SumAmounts(txns, i + 1)

(***************************************************************************)
(* Number arithmetic.  An amount is a Number, an IEEE 754 double: the      *)
(* amount of c cents is the double nearest to c / 100.  A double of at     *)
(* least 2^-8 is a multiple of 2^-60, and is written here as that multiple,*)
(* a natural number of at most 53 significant bits.  Naturals beyond 2^31  *)
(* are sequences of 15-bit limbs, lowest limb first, no zero limb on top.  *)
(***************************************************************************)
LimbBits == 15
Limb == 32768
MantissaBits == 53
UnitBits == 60
GuardBits == 15

RECURSIVE BigOf(_)
BigOf(n) == IF n = 0 THEN <<>> ELSE <<n % Limb>> \o BigOf(n \div Limb)

RECURSIVE IntOf(_, _)
IntOf(a, i) == IF i > Len(a) THEN 0 ELSE a[i] + Limb * IntOf(a, i + 1)

RECURSIVE Strip(_)
Strip(a) ==
    IF a = <<>> THEN <<>>
    ELSE IF a[Len(a)] = 0 THEN Strip(SubSeq(a, 1, Len(a) - 1))
    ELSE a

LimbAt(a, i) == IF i <= Len(a) THEN a[i] ELSE 0

RECURSIVE AddFrom(_, _, _, _)
AddFrom(a, b, i, carry) ==
    IF i > Len(a) /\ i > Len(b) THEN BigOf(carry)
    ELSE LET t == LimbAt(a, i) + LimbAt(b, i) + carry
         IN  <<t % Limb>> \o AddFrom(a, b, i + 1, t \div Limb)

BigAdd(a, b) == AddFrom(a, b, 1, 0)

RECURSIVE TimesFrom(_, _, _, _)
TimesFrom(a, k, i, carry) ==
    IF i > Len(a) THEN BigOf(carry)
    ELSE LET t == a[i] * k + carry
         IN  <<t % Limb>> \o TimesFrom(a, k, i + 1, t \div Limb)

\* a times k, for 0 < k <= Limb
BigTimes(a, k) == TimesFrom(a, k, 1, 0)

\* long division by k, 0 < k <= Limb, from limb i down: quotient, remainder
RECURSIVE DivideFrom(_, _, _, _)
DivideFrom(a, k, i, rem) ==
    IF i = 0 THEN [q |-> <<>>, r |-> rem]
    ELSE LET t == rem * Limb + a[i]
             rest == DivideFrom(a, k, i - 1, t % k)
         IN  [q |-> rest.q \o <<t \div k>>, r |-> rest.r]

BigDivide(a, k) ==
    LET d == DivideFrom(a, k, Len(a), 0) IN [q |-> Strip(d.q), r |-> d.r]

RECURSIVE IntBits(_)
IntBits(n) == IF n = 0 THEN 0 ELSE 1 + IntBits(n \div 2)

BitLength(a) == IF a = <<>> THEN 0 ELSE LimbBits * (Len(a) - 1) + IntBits(a[Len(a)])

ShiftRight(a, bits) ==
    IF bits \div LimbBits >= Len(a) THEN <<>>
    ELSE BigDivide(SubSeq(a, bits \div LimbBits + 1, Len(a)), 2^(bits % LimbBits)).q

ShiftLeft(a, bits) ==
    IF a = <<>> THEN <<>>
    ELSE [i \in 1..(bits \div LimbBits) |-> 0] \o BigTimes(a, 2^(bits % LimbBits))

Bit(a, i) == (LimbAt(a, i \div LimbBits + 1) \div 2^(i % LimbBits)) % 2

\* some bit of a below bit i is set
AnyBitBelow(a, i) ==
    \/ \E j \in 1..(i \div LimbBits) : LimbAt(a, j) # 0
    \/ LimbAt(a, i \div LimbBits + 1) % 2^(i % LimbBits) # 0

\* round to nearest, ties to even: a is the exact result, or its integer
\* part when inexact says that a fraction was left out
RoundToDouble(a, inexact) ==
    LET cut == BitLength(a) - MantissaBits
    IN  IF cut <= 0 THEN a
        ELSE LET kept == ShiftRight(a, cut)
                 up == /\ Bit(a, cut - 1) = 1
                       /\ inexact \/ AnyBitBelow(a, cut - 1) \/ Bit(kept, 0) = 1
             IN  ShiftLeft(IF up THEN BigAdd(kept, <<1>>) ELSE kept, cut)

\* x + y, x * k and x / k of doubles, k a small whole number
DoubleAdd(x, y) == RoundToDouble(BigAdd(x, y), FALSE)
DoubleTimes(x, k) == RoundToDouble(BigTimes(x, k), FALSE)
DoubleDivide(x, k) ==
    LET d == BigDivide(ShiftLeft(x, GuardBits), k)
    IN  ShiftRight(RoundToDouble(d.q, d.r # 0), GuardBits)

\* the Number of an amount of c cents
DoubleOfCents(c) == DoubleDivide(ShiftLeft(BigOf(c), UnitBits), 100)

\* Math.round(x): the nearest integer, a half goes up
MathRoundDouble(x) == IntOf(ShiftRight(BigAdd(x, ShiftLeft(<<1>>, UnitBits - 1)), UnitBits), 1)

\* txns.reduce((sum, t) => sum + t.amount, 0) from transaction i on
RECURSIVE ReduceSum(_, _, _)
ReduceSum(txns, i, sum) ==
    IF i > Len(txns) THEN sum
    ELSE ReduceSum(txns, i + 1, DoubleAdd(sum, DoubleOfCents(txns[i].amount)))

\* Math.round(avgAmount * 100) / 100, in cents
RoundedAverage(txns) ==
    LET avgAmount == DoubleDivide(ReduceSum(txns, 1, <<>>), Len(txns))
    IN  MathRoundDouble(DoubleTimes(avgAmount, 100))

\* txns.every(t => Math.abs(t.amount - avgAmount) / avgAmount < 0.2) with
\* avgAmount = sum / n > 0:  5 * |n * amount - sum| < sum
AmountVariance(txns) ==
    LET sum == SumAmounts(txns, 1)
        n == Len(txns)
    IN  \A i \in 1..n : 5 * Abs(n * txns[i].amount - sum) < sum

CreatedAtOrDate(t) ==
    IF t.created_at # NoDate THEN t.created_at ELSE DateStamp(t.date)

\* faulty variant: the stamp of the transaction the fold starts from
MostRecentCreatedAt_OfFirst(txns, i, latest) == latest

\* txns.reduce((latest, txn) => ... > latest ? ... : latest, first)
RECURSIVE MostRecentCreatedAt(_, _, _)
MostRecentCreatedAt(txns, i, latest) ==
    IF i > Len(txns) THEN latest
    ELSE MostRecentCreatedAt(txns, i + 1,
            IF CreatedAtOrDate(txns[i]) > latest THEN CreatedAtOrDate(txns[i]) ELSE latest)

\* txns sorted by date, latest first (equal dates keep their order)
ByDateDescending(a) == StableSortByKey(a, [i \in 1..Len(a) |-> -a[i].date])

\* one pass of the loop over merchantGroups: the descriptor pushed, if any
AnalyzeGroup(merchantKey, group, minOcc, zone, known) ==
    IF Len(group) < minOcc THEN <<>>
    ELSE LET txns == ByDateDescending(group)
             n == Len(txns)
             sum == SumAmounts(txns, 1)
             amountVariance == AmountVariance(txns)
             freq == detectFrequency([i \in 1..n |-> txns[i].date])
             knownInfo == findKnownSubscription(known, merchantKey)
             lastTxn == txns[1]
             merchantName == MerchantLabel(lastTxn)
         IN  IF freq = "UNKNOWN" /\ ~amountVariance THEN <<>>
             ELSE << [id |-> "recurring-" \o ReplaceSpaceRuns(merchantKey, "-"),
                      name |-> IF knownInfo.name # "" THEN knownInfo.name ELSE merchantName,
                      merchant_name |-> merchantName,
                      description |-> merchantName \o " - " \o toLowerCase(freq) \o " charge",
                      amount |-> RoundedAverage(txns),
                      frequency |-> freq,
                      category |-> IF knownInfo.category # "" THEN knownInfo.category
                                   ELSE "OTHER",
                      last_date |-> MostRecentCreatedAt(txns, 1, CreatedAtOrDate(txns[1])),
                      next_projected_date |-> projectNextDate(lastTxn.date, freq, zone),
                      is_active |-> TRUE,
                      status |-> IF n >= 3 THEN "MATURE" ELSE "ACTIVE",
                      account_id |-> lastTxn.account_id,
                      transaction_count |-> n,
                      logo_url |-> knownInfo.logo,
                      url |-> knownInfo.url] >>

\* faulty variant: the descriptors stay in the order of the groups
SortByAmountDescending_AsFound(found) == found

\* detectedSubscriptions.sort((a, b) => b.amount - a.amount)
SortByAmountDescending(found) ==
    StableSortByKey(found, [i \in 1..Len(found) |-> -found[i].amount])

RECURSIVE AnalyzeGroups(_, _, _, _, _, _, _)
AnalyzeGroups(charges, keyOf, keys, i, minOcc, zone, known) ==
    IF i > Len(keys) THEN <<>>
    ELSE AnalyzeGroup(keys[i], MerchantGroup(charges, keyOf, keys[i], 1), minOcc, zone, known)
            \o AnalyzeGroups(charges, keyOf, keys, i + 1, minOcc, zone, known)

\* the list returned; zone is the server's time zone and known the table
\* KNOWN_SUBSCRIPTIONS as the call finds it
detectRecurringTransactions(txs, minOcc, zone, known) ==
    LET charges == SelectSeq(txs, IsCharge)
        keyOf == MerchantKeysOf(charges)
        found == AnalyzeGroups(charges, keyOf, InsertionOrder(keyOf, 1), 1, minOcc, zone, known)
    IN  SortByAmountDescending(found)

(***************************************************************************)
(* What a call leaves in the objects it was given.  The heap holds the     *)
(* caller's array `transactions`, the table `knownSubscriptions` and       *)
(* `txns`, the array of the group under analysis: filter returns a new     *)
(* array, each group is an array the call creates and fills by push, so    *)
(* the sort of txns writes that array only; `dates` (sorted in place by    *)
(* detectFrequency) and detectedSubscriptions are new arrays as well, and  *)
(* no field of a transaction or a table entry is assigned.                 *)
(***************************************************************************)
\* faulty variant: the sort runs on the caller's array as well
SortByDateDescending_CallerToo(heap) ==
    [heap EXCEPT !.txns = ByDateDescending(@),
                 !.transactions = ByDateDescending(@)]

\* txns.sort((a, b) => b.date.localeCompare(a.date))
SortByDateDescending(heap) ==
    [heap EXCEPT !.txns = ByDateDescending(@)]

RECURSIVE HeapAfterGroups(_, _, _, _, _, _)
HeapAfterGroups(heap, charges, keyOf, keys, i, minOcc) ==
    IF i > Len(keys) THEN heap
    ELSE LET group == MerchantGroup(charges, keyOf, keys[i], 1)
         IN  HeapAfterGroups(IF Len(group) < minOcc THEN heap
                             ELSE SortByDateDescending([heap EXCEPT !.txns = group]),
                             charges, keyOf, keys, i + 1, minOcc)

HeapAfterCall(txs, minOcc, known) ==
    LET charges == SelectSeq(txs, IsCharge)
        keyOf == MerchantKeysOf(charges)
    IN  HeapAfterGroups([transactions |-> txs, knownSubscriptions |-> known, txns |-> <<>>],
                        charges, keyOf, InsertionOrder(keyOf, 1), 1, minOcc)

(***************************************************************************)
(* calculateTotals: amounts are cents; totalMonthly is kept in units of    *)
(* 1/300 cent, in which x * 4.33, x * 2.17, x and x / 12 are all whole.    *)
(***************************************************************************)
MonthlyShare(sub) ==
    CASE sub.frequency = "WEEKLY"   -> sub.amount * 1299
      [] sub.frequency = "BIWEEKLY" -> sub.amount * 651
      [] sub.frequency = "MONTHLY"  -> sub.amount * 300
      [] sub.frequency = "ANNUALLY" -> sub.amount * 25
      [] OTHER                      -> sub.amount * 300

\* the loop over subscriptions, from index i on
RECURSIVE TotalMonthly(_, _)
TotalMonthly(subs, i) ==
    IF i > Len(subs) THEN 0
    ELSE (IF subs[i].is_active THEN MonthlyShare(subs[i]) ELSE 0)
            + TotalMonthly(subs, i + 1)

RECURSIVE TotalMonthly_AllSubs(_, _)
TotalMonthly_AllSubs(subs, i) ==
    IF i > Len(subs) THEN 0
    ELSE MonthlyShare(subs[i]) + TotalMonthly_AllSubs(subs, i + 1)

\* faulty variant: the annual total is twelve times the rounded monthly total
calculateTotals_AnnualFromRounded(subs) ==
    LET totalMonthly == TotalMonthly(subs, 1)
    IN  [totalMonthlyAmount |-> MathRound(totalMonthly, 300),
         totalAnnualAmount  |-> 12 * MathRound(totalMonthly, 300)]

\* faulty variant: inactive subscriptions are counted
calculateTotals_CountsInactive(subs) ==
    LET totalMonthly == TotalMonthly_AllSubs(subs, 1)
    IN  [totalMonthlyAmount |-> MathRound(totalMonthly, 300),
         totalAnnualAmount  |-> MathRound(totalMonthly * 12, 300)]

calculateTotals(subs) ==
    LET totalMonthly == TotalMonthly(subs, 1)
    IN  [totalMonthlyAmount |-> MathRound(totalMonthly, 300),
         totalAnnualAmount  |-> MathRound(totalMonthly * 12, 300)]

(***************************************************************************)
(* Idle values of the variables a specification does not use               *)
(***************************************************************************)
IdleNormalize == name = "" /\ normalized = "" /\ renormalized = ""
IdleSimilarity == str1 = "" /\ str2 = "" /\ similarity = 0 /\ swapped = 0
IdleFrequency == dates = <<>> /\ frequency = ""
IdleTotals == subscriptions = <<>> /\ totals = <<>>
IdleDetect ==
    /\ transactions = <<>> /\ minOccurrences = 0 /\ detectedSubscriptions = <<>>
    /\ timeZone = UTC /\ knownSubscriptions = <<>> /\ detectedAgain = <<>>
IdleLookup ==
    /\ serviceName = "" /\ curatedEntry = NoEntry /\ bestMatch = NoBest
    /\ cancellationLink = Null
NoCall == [op |-> "none"]
NoRecurring == [read |-> FALSE]

IdleStore ==
    /\ stored = <<>> /\ storedBefore = <<>> /\ lastCall = NoCall /\ calls = 0
    /\ clock = 0 /\ nextId = 0 /\ recurring = NoRecurring

EmptyBody == [f \in {} |-> 0]
NotReceived == [at |-> "none"]
NoRow == [visit_count |-> 0]

IdleVisit ==
    /\ subscriptionRow = NoRow /\ firstRow = NoRow /\ visitRequests = <<>>
    /\ visitClock = 0

IdleTracker ==
    /\ subscriptionCache = <<>> /\ openSubscriptionTabs = <<>>
    /\ pendingTimeUpdates = <<>> /\ lastVisitCounted = <<>> /\ tasks = <<>>
    /\ backend = <<>> /\ trackerNow = 0 /\ trackerEvents = 0 /\ trackerTicks = 0
    /\ trackedSeconds = <<>> /\ visitsSent = <<>>

(***************************************************************************)
(* Specification SpecNormalize: normalizeServiceName applied twice         *)
(***************************************************************************)
MaxPieces == 3
NamePieces == {"a", " ", " inc", " plus", ".com", "hbo", "N", "+"}

RECURSIVE Concats(_)
Concats(n) ==
    IF n = 0 THEN {""}
    ELSE LET shorter == Concats(n - 1)
         IN  shorter \cup {p \o q : p \in shorter, q \in NamePieces}

InitNormalize ==
    /\ pc = "normalize"
    /\ name \in Concats(MaxPieces)
    /\ normalized = ""
    /\ renormalized = ""
    /\ IdleSimilarity /\ IdleFrequency /\ IdleTotals /\ IdleDetect /\ IdleLookup /\ IdleStore /\ IdleVisit /\ IdleTracker

Normalize ==
    /\ pc = "normalize"
    /\ normalized' = normalizeServiceName(name)
    /\ pc' = "renormalize"
    /\ UNCHANGED <<name, renormalized>>
    /\ UNCHANGED <<similarityVars, frequencyVars, totalsVars, detectVars, lookupVars, storeVars, visitVars, trackerVars>>

Renormalize ==
    /\ pc = "renormalize"
    /\ renormalized' = normalizeServiceName(normalized)
    /\ pc' = "normalized"
    /\ UNCHANGED <<name, normalized>>
    /\ UNCHANGED <<similarityVars, frequencyVars, totalsVars, detectVars, lookupVars, storeVars, visitVars, trackerVars>>

NextNormalize == Normalize \/ Renormalize

SpecNormalize == InitNormalize /\ [][NextNormalize]_vars

\* C1: normalizeServiceName is idempotent: normalizing an already normalized
\* name gives the same name, for every input (several trailing suffix words
\* and special-case rewrites included).
C1_NormalizeIdempotent ==
    pc = "normalized" => renormalized = normalized

(***************************************************************************)
(* Specification SpecSimilarity: calculateSimilarity on a pair, both ways  *)
(***************************************************************************)
MaxLen == 4
SimChars == {"a", "b"}

RECURSIVE Strings(_)
Strings(n) ==
    IF n = 0 THEN {""}
    ELSE LET shorter == Strings(n - 1)
         IN  shorter \cup {s \o c : s \in shorter, c \in SimChars}

InitSimilarity ==
    /\ pc = "similarity"
    /\ str1 \in Strings(MaxLen)
    /\ str2 \in Strings(MaxLen)
    /\ similarity = 0
    /\ swapped = 0
    /\ IdleNormalize /\ IdleFrequency /\ IdleTotals /\ IdleDetect /\ IdleLookup /\ IdleStore /\ IdleVisit /\ IdleTracker

CalculateSimilarity ==
    /\ pc = "similarity"
    /\ similarity' = calculateSimilarity(str1, str2)
    /\ pc' = "swapped"
    /\ UNCHANGED <<str1, str2, swapped>>
    /\ UNCHANGED <<normalizeVars, frequencyVars, totalsVars, detectVars, lookupVars, storeVars, visitVars, trackerVars>>

CalculateSwapped ==
    /\ pc = "swapped"
    /\ swapped' = calculateSimilarity(str2, str1)
    /\ pc' = "compared"
    /\ UNCHANGED <<str1, str2, similarity>>
    /\ UNCHANGED <<normalizeVars, frequencyVars, totalsVars, detectVars, lookupVars, storeVars, visitVars, trackerVars>>

NextSimilarity == CalculateSimilarity \/ CalculateSwapped

SpecSimilarity == InitSimilarity /\ [][NextSimilarity]_vars

\* C2: similarity is symmetric: similarity(a, b) = similarity(b, a).
C2_SimilaritySymmetric ==
    pc = "compared" => similarity = swapped

C2_Witness ==
    /\ pc = "compared"
    /\ str1 # "" /\ Len(str1) < Len(str2)
    /\ similarity > 0 /\ similarity < 100

\* C3: similarity(a, b) is an integer in 0..100, it is 100 whenever a = b
\* (both empty included) and 0 whenever exactly one of a, b is empty.
C3_SimilarityBounds ==
    pc \in {"swapped", "compared"} =>
        /\ similarity \in 0..100
        /\ (str1 = str2 => similarity = 100)
        /\ ((str1 = "") # (str2 = "") => similarity = 0)

C3_Witness ==
    /\ pc = "swapped"
    /\ str1 = "" /\ str2 # ""
    /\ similarity = 0

\* The edit distance by its definition: the least number of single-character
\* insertions, deletions and substitutions that turn a into b.
OneEdit(s) ==
    {SubSeq(s, 1, i - 1) \o SubSeq(s, i + 1, Len(s)) : i \in 1..Len(s)}
    \cup {SubSeq(s, 1, i - 1) \o c \o SubSeq(s, i + 1, Len(s)) :
            i \in 1..Len(s), c \in SimChars}
    \cup {SubSeq(s, 1, i) \o c \o SubSeq(s, i + 1, Len(s)) :
            i \in 0..Len(s), c \in SimChars}

RECURSIVE WithinEdits(_, _)
WithinEdits(s, k) ==
    IF k = 0 THEN {s}
    ELSE LET nearer == WithinEdits(s, k - 1)
         IN  nearer \cup UNION {OneEdit(t) : t \in nearer}

EditDistance(a, b) ==
    CHOOSE k \in 0..(Len(a) + Len(b)) :
        /\ b \in WithinEdits(a, k)
        /\ k > 0 => b \notin WithinEdits(a, k - 1)

MaxDates == 3
DayChoices == {0, 10, 11, 20, 21, 45, 46, 400, 401}

RECURSIVE SeqsUpTo(_, _)
SeqsUpTo(S, n) ==
    IF n = 0 THEN {<<>>}
    ELSE LET shorter == SeqsUpTo(S, n - 1)
         IN  shorter \cup {Append(q, x) : q \in shorter, x \in S}

InitFrequency ==
    /\ pc = "frequency"
    /\ dates \in SeqsUpTo(DayChoices, MaxDates)
    /\ frequency = ""
    /\ IdleNormalize /\ IdleSimilarity /\ IdleTotals /\ IdleDetect /\ IdleLookup /\ IdleStore /\ IdleVisit /\ IdleTracker

DetectFrequency ==
    /\ pc = "frequency"
    /\ frequency' = detectFrequency(dates)
    /\ pc' = "classified"
    /\ UNCHANGED dates
    /\ UNCHANGED <<normalizeVars, similarityVars, totalsVars, detectVars, lookupVars, storeVars, visitVars, trackerVars>>

NextFrequency == DetectFrequency

SpecFrequency == InitFrequency /\ [][NextFrequency]_vars

SeqMax(q) == CHOOSE x \in {q[i] : i \in 1..Len(q)} : \A i \in 1..Len(q) : q[i] <= x
SeqMin(q) == CHOOSE x \in {q[i] : i \in 1..Len(q)} : \A i \in 1..Len(q) : x <= q[i]

\* The documented buckets of the mean gap g = (latest - earliest) / (n - 1)
\* (the gaps between consecutive sorted dates add up to latest - earliest):
\* g <= 10 WEEKLY, <= 20 BIWEEKLY, <= 45 MONTHLY, <= 400 ANNUALLY, else
\* UNKNOWN; fewer than 2 dates give UNKNOWN.
MeanGapBucket(ds) ==
    IF Len(ds) < 2 THEN "UNKNOWN"
    ELSE LET span == SeqMax(ds) - SeqMin(ds)
             n == Len(ds) - 1
         IN  CASE span <= 10 * n                      -> "WEEKLY"
               [] 10 * n < span /\ span <= 20 * n    -> "BIWEEKLY"
               [] 20 * n < span /\ span <= 45 * n    -> "MONTHLY"
               [] 45 * n < span /\ span <= 400 * n   -> "ANNUALLY"
               [] 400 * n < span                      -> "UNKNOWN"

\* C5: the frequency is a monotonic step function of the mean gap g between
\* consecutive sorted dates, with inclusive upper boundaries: g <= 10 WEEKLY,
\* 10 < g <= 20 BIWEEKLY, 20 < g <= 45 MONTHLY, 45 < g <= 400 ANNUALLY,
\* g > 400 UNKNOWN; fewer than 2 dates give UNKNOWN.
C5_FrequencyBuckets ==
    pc = "classified" => frequency = MeanGapBucket(dates)

C5_Witness ==
    /\ pc = "classified"
    /\ dates = <<400, 0>>
    /\ frequency = "ANNUALLY"

(***************************************************************************)
(* Specification SpecTotals: calculateTotals on a list of descriptors      *)
(***************************************************************************)
MaxSubs == 2
AmountCents == {1, 599, 1599}
Frequencies == {"WEEKLY", "BIWEEKLY", "MONTHLY", "ANNUALLY", "UNKNOWN"}

SubChoices ==
    [amount : AmountCents, frequency : Frequencies, is_active : BOOLEAN]

InitTotals ==
    /\ pc = "totals"
    /\ subscriptions \in SeqsUpTo(SubChoices, MaxSubs)
    /\ totals = <<>>
    /\ IdleNormalize /\ IdleSimilarity /\ IdleFrequency /\ IdleDetect /\ IdleLookup /\ IdleStore /\ IdleVisit /\ IdleTracker

CalculateTotals ==
    /\ pc = "totals"
    /\ totals' = calculateTotals(subscriptions)
    /\ pc' = "totalled"
    /\ UNCHANGED subscriptions
    /\ UNCHANGED <<normalizeVars, similarityVars, frequencyVars, detectVars, lookupVars, storeVars, visitVars, trackerVars>>

NextTotals == CalculateTotals

SpecTotals == InitTotals /\ [][NextTotals]_vars

\* the cents charged by the active subscriptions of one frequency
RECURSIVE SumCents(_, _)
SumCents(subs, idx) ==
    IF idx = {} THEN 0
    ELSE LET i == CHOOSE i \in idx : TRUE
         IN  subs[i].amount + SumCents(subs, idx \ {i})

ActiveCents(subs, f) ==
    SumCents(subs, {i \in 1..Len(subs) : subs[i].is_active /\ subs[i].frequency = f})

\* 300 times the exact monthly sum in cents:
\* weekly * 4.33 + biweekly * 2.17 + monthly + annually / 12 + unknown
ExactMonthly300(subs) ==
    1299 * ActiveCents(subs, "WEEKLY") + 651 * ActiveCents(subs, "BIWEEKLY")
        + 300 * ActiveCents(subs, "MONTHLY") + 25 * ActiveCents(subs, "ANNUALLY")
        + 300 * ActiveCents(subs, "UNKNOWN")

\* r is x / d rounded to the nearest integer (d > 0, halves up)
IsRounded(r, x, d) == (2 * r - 1) * d <= 2 * x /\ 2 * x < (2 * r + 1) * d

\* C8 as stated: total_annual = round(total_monthly * 12, 2) with
\* total_monthly the returned, rounded monthly total; in cents the annual
\* total is exactly twelve times the monthly total.
C8_AnnualFromReturnedMonthly ==
    pc = "totalled" => totals.totalAnnualAmount = 12 * totals.totalMonthlyAmount

\* C8 amended: total_annual = round(12 * S, 2) with S the unrounded sum of
\* the active descriptors' monthly equivalents (total_monthly is
\* round(S, 2)); it is within 0.06 of twelve times the returned
\* total_monthly.
C8_AnnualFromUnroundedMonthly ==
    pc = "totalled" =>
        /\ IsRounded(totals.totalAnnualAmount, 12 * ExactMonthly300(subscriptions), 300)
        /\ totals.totalAnnualAmount - 12 * totals.totalMonthlyAmount \in -6..6

C8_Witness ==
    /\ pc = "totalled"
    /\ Len(subscriptions) > 0
    /\ totals.totalAnnualAmount # 12 * totals.totalMonthlyAmount

MaxTransactions == 3
MerchantNames == {"Gym", "Cafe"}
ChargeCents == {800, 1200, 1300}
ChargeDays == {400, 1300}
MinOccurrenceChoices == 1..3

ChargeChoices ==
    [merchant_name : MerchantNames, name : {"POS DEBIT"}, amount : ChargeCents,
     date : ChargeDays, pending : {FALSE}, created_at : {2801}, account_id : {"acc"}]

\* a pending charge, a refund, a zero amount, and a charge that has no
\* merchant_name and an empty name
OtherChoices ==
    {[merchant_name |-> "Gym", name |-> "POS DEBIT", amount |-> 800, date |-> 400,
      pending |-> TRUE, created_at |-> 2801, account_id |-> "acc"],
     [merchant_name |-> "Gym", name |-> "POS DEBIT", amount |-> -800, date |-> 400,
      pending |-> FALSE, created_at |-> 2801, account_id |-> "acc"],
     [merchant_name |-> "Gym", name |-> "POS DEBIT", amount |-> 0, date |-> 400,
      pending |-> FALSE, created_at |-> 2801, account_id |-> "acc"],
     [merchant_name |-> "", name |-> "", amount |-> 800, date |-> 400,
      pending |-> FALSE, created_at |-> 2801, account_id |-> "acc"]}

TransactionChoices == ChargeChoices \cup OtherChoices

InitDetect ==
    /\ pc = "detect"
    /\ transactions \in SeqsUpTo(TransactionChoices, MaxTransactions)
    /\ minOccurrences \in MinOccurrenceChoices
    /\ detectedSubscriptions = <<>>
    /\ timeZone = UTC
    /\ knownSubscriptions = KNOWN_SUBSCRIPTIONS
    /\ detectedAgain = <<>>
    /\ IdleNormalize /\ IdleSimilarity /\ IdleFrequency /\ IdleTotals /\ IdleLookup /\ IdleStore /\ IdleVisit /\ IdleTracker

\* a call: the list returned, and what the call leaves in the caller's array
\* and in the table
DetectRecurringTransactions ==
    /\ pc = "detect"
    /\ detectedSubscriptions' =
            detectRecurringTransactions(transactions, minOccurrences, timeZone,
                                        knownSubscriptions)
    /\ LET heap == HeapAfterCall(transactions, minOccurrences, knownSubscriptions)
       IN  /\ transactions' = heap.transactions
           /\ knownSubscriptions' = heap.knownSubscriptions
    /\ pc' = "detected"
    /\ UNCHANGED <<minOccurrences, timeZone, detectedAgain>>
    /\ UNCHANGED <<normalizeVars, similarityVars, frequencyVars, totalsVars, lookupVars, storeVars, visitVars, trackerVars>>

\* a second call with the same array
DetectAgain ==
    /\ pc = "detected"
    /\ detectedAgain' =
            detectRecurringTransactions(transactions, minOccurrences, timeZone,
                                        knownSubscriptions)
    /\ LET heap == HeapAfterCall(transactions, minOccurrences, knownSubscriptions)
       IN  /\ transactions' = heap.transactions
           /\ knownSubscriptions' = heap.knownSubscriptions
    /\ pc' = "repeated"
    /\ UNCHANGED <<minOccurrences, timeZone, detectedSubscriptions>>
    /\ UNCHANGED <<normalizeVars, similarityVars, frequencyVars, totalsVars, lookupVars, storeVars, visitVars, trackerVars>>

NextDetect == DetectRecurringTransactions \/ DetectAgain

SpecDetect == InitDetect /\ [][NextDetect]_vars

(***************************************************************************)
(* Specification SpecBilling: detectRecurringTransactions on charges with  *)
(* calendar dates, on a server in any of three time zones.  Days: 379 is   *)
(* 2024-01-15, 386 is 2024-01-22, 410 is 2024-02-15, 439 is 2024-03-15,    *)
(* 1300 is 2026-07-24.  A created_at stamp 2 * d + 1 is a time during day  *)
(* d: 901 on 2024-03-26, 1001 on 2024-05-15.                               *)
(***************************************************************************)
MaxBilling == 3

BillingChoices ==
    {[merchant_name |-> "Netflix", name |-> "NFLX", amount |-> 1599, date |-> 379,
      pending |-> FALSE, created_at |-> 1001, account_id |-> "acc"],
     [merchant_name |-> "Netflix", name |-> "NFLX", amount |-> 1599, date |-> 410,
      pending |-> FALSE, created_at |-> 901, account_id |-> "acc"],
     [merchant_name |-> "Netflix", name |-> "NFLX", amount |-> 1599, date |-> 439,
      pending |-> FALSE, created_at |-> 901, account_id |-> "acc"],
     [merchant_name |-> "Netflix", name |-> "NFLX", amount |-> 1599, date |-> 1300,
      pending |-> FALSE, created_at |-> NoDate, account_id |-> "acc"],
     [merchant_name |-> "Netflix", name |-> "NFLX", amount |-> 1599, date |-> 410,
      pending |-> TRUE, created_at |-> 901, account_id |-> "acc"],
     [merchant_name |-> "", name |-> "Cafe", amount |-> 1000, date |-> 379,
      pending |-> FALSE, created_at |-> 901, account_id |-> "acc"],
     [merchant_name |-> "", name |-> "Cafe", amount |-> 1000, date |-> 386,
      pending |-> FALSE, created_at |-> NoDate, account_id |-> "acc"],
     [merchant_name |-> "", name |-> "Cafe", amount |-> 9500, date |-> 439,
      pending |-> FALSE, created_at |-> 901, account_id |-> "acc"],
     [merchant_name |-> "", name |-> "Cafe", amount |-> 9500, date |-> 1300,
      pending |-> FALSE, created_at |-> 2601, account_id |-> "acc"]}

TimeZones == {UTC, Vancouver, Berlin}
BillingMinOccurrences == {2, 3}

InitBilling ==
    /\ pc = "detect"
    /\ transactions \in SeqsUpTo(BillingChoices, MaxBilling)
    /\ minOccurrences \in BillingMinOccurrences
    /\ detectedSubscriptions = <<>>
    /\ timeZone \in TimeZones
    /\ knownSubscriptions = KNOWN_SUBSCRIPTIONS
    /\ detectedAgain = <<>>
    /\ IdleNormalize /\ IdleSimilarity /\ IdleFrequency /\ IdleTotals /\ IdleLookup /\ IdleStore /\ IdleVisit /\ IdleTracker

SpecBilling == InitBilling /\ [][NextDetect]_vars

(***************************************************************************)
(* Specification SpecLookup: getCancellationLink on service names made of  *)
(* a base and up to MaxSuffixes suffixes                                   *)
(***************************************************************************)
MaxSuffixes == 1
QueryBases ==
    {"", " ", "Netflix", "Netflx", "New York Times", "PlayStation Plus", "hulx",
     "slacc", "Constructor", "xyz", "Zoom", "HBO", "nyt"}
QuerySuffixes == {" Inc", " Premium", ".com"}

RECURSIVE Suffixed(_)
Suffixed(n) ==
    IF n = 0 THEN QueryBases
    ELSE LET shorter == Suffixed(n - 1)
         IN  shorter \cup {q \o x : q \in shorter, x \in QuerySuffixes}

InitLookup ==
    /\ pc = "lookup"
    /\ serviceName \in Suffixed(MaxSuffixes)
    /\ curatedEntry = NoEntry
    /\ bestMatch = NoBest
    /\ cancellationLink = Null
    /\ IdleNormalize /\ IdleSimilarity /\ IdleFrequency /\ IdleTotals /\ IdleDetect /\ IdleStore /\ IdleVisit /\ IdleTracker

GetCancellationLink ==
    /\ pc = "lookup"
    /\ LET run == LookupRun(serviceName)
       IN  /\ curatedEntry' = run.curatedEntry
           /\ bestMatch' = run.bestMatch
           /\ cancellationLink' = run.settled
    /\ pc' = "returned"
    /\ UNCHANGED serviceName
    /\ UNCHANGED <<normalizeVars, similarityVars, frequencyVars, totalsVars, detectVars, storeVars, visitVars, trackerVars>>

NextLookup == GetCancellationLink

SpecLookup == InitLookup /\ [][NextLookup]_vars

(***************************************************************************)
(* Specification SpecGrouping: detectRecurringTransactions on labels that  *)
(* differ in letter case, surrounding or inner whitespace or a suffix,     *)
(* with a pending charge and a refund, at thresholds 1 and 2               *)
(***************************************************************************)
MaxGrouped == 3

GroupingChoices ==
    {[merchant_name |-> "Netflix", name |-> "NFLX", amount |-> 1599, date |-> 379,
      pending |-> FALSE, created_at |-> 901, account_id |-> "acc"],
     [merchant_name |-> " NETFLIX ", name |-> "NFLX", amount |-> 1599, date |-> 410,
      pending |-> FALSE, created_at |-> 901, account_id |-> "acc"],
     [merchant_name |-> "", name |-> "netflix", amount |-> 1599, date |-> 439,
      pending |-> FALSE, created_at |-> 901, account_id |-> "acc"],
     [merchant_name |-> "netflix.com", name |-> "NFLX", amount |-> 1599, date |-> 410,
      pending |-> FALSE, created_at |-> 901, account_id |-> "acc"],
     [merchant_name |-> "a b", name |-> "AB", amount |-> 800, date |-> 379,
      pending |-> FALSE, created_at |-> 901, account_id |-> "acc"],
     [merchant_name |-> "a  b", name |-> "AB", amount |-> 1200, date |-> 410,
      pending |-> FALSE, created_at |-> 901, account_id |-> "acc"],
     [merchant_name |-> "Netflix", name |-> "NFLX", amount |-> 1599, date |-> 410,
      pending |-> TRUE, created_at |-> 901, account_id |-> "acc"],
     [merchant_name |-> "Netflix", name |-> "NFLX", amount |-> -1599, date |-> 439,
      pending |-> FALSE, created_at |-> 901, account_id |-> "acc"],
     [merchant_name |-> "Netflix", name |-> "NFLX", amount |-> 0, date |-> 439,
      pending |-> FALSE, created_at |-> 901, account_id |-> "acc"]}

GroupingMinOccurrences == {1, 2}

InitGrouping ==
    /\ pc = "detect"
    /\ transactions \in SeqsUpTo(GroupingChoices, MaxGrouped)
    /\ minOccurrences \in GroupingMinOccurrences
    /\ detectedSubscriptions = <<>>
    /\ timeZone = UTC
    /\ knownSubscriptions = KNOWN_SUBSCRIPTIONS
    /\ detectedAgain = <<>>
    /\ IdleNormalize /\ IdleSimilarity /\ IdleFrequency /\ IdleTotals /\ IdleLookup /\ IdleStore /\ IdleVisit /\ IdleTracker

SpecGrouping == InitGrouping /\ [][NextDetect]_vars

(***************************************************************************)
(* Specification SpecOrder: a call of detectRecurringTransactions, then a  *)
(* call with the same transactions in another order.  Two charges share a  *)
(* date under different labels, two merchants share an amount.             *)
(***************************************************************************)
MaxReordered == 4

OrderChoices ==
    {[merchant_name |-> "Netflix", name |-> "NFLX", amount |-> 999, date |-> 439,
      pending |-> FALSE, created_at |-> 901, account_id |-> "acc"],
     [merchant_name |-> "Netflix", name |-> "NFLX", amount |-> 999, date |-> 410,
      pending |-> FALSE, created_at |-> 1001, account_id |-> "acc"],
     [merchant_name |-> "Netflix", name |-> "NFLX", amount |-> 999, date |-> 379,
      pending |-> FALSE, created_at |-> NoDate, account_id |-> "acc"],
     [merchant_name |-> "NETFLIX", name |-> "NFLX", amount |-> 1001, date |-> 379,
      pending |-> FALSE, created_at |-> 901, account_id |-> "acc"],
     [merchant_name |-> "", name |-> "Cafe", amount |-> 999, date |-> 386,
      pending |-> FALSE, created_at |-> NoDate, account_id |-> "acc"]}

InitOrder ==
    /\ pc = "detect"
    /\ transactions \in SeqsUpTo(OrderChoices, MaxReordered)
    /\ minOccurrences \in GroupingMinOccurrences
    /\ detectedSubscriptions = <<>>
    /\ timeZone = UTC
    /\ knownSubscriptions = KNOWN_SUBSCRIPTIONS
    /\ detectedAgain = <<>>
    /\ IdleNormalize /\ IdleSimilarity /\ IdleFrequency /\ IdleTotals /\ IdleLookup /\ IdleStore /\ IdleVisit /\ IdleTracker

\* a second call, with the transactions in any order
DetectPermuted ==
    /\ pc = "detected"
    /\ \E p \in Permutations(1..Len(transactions)) :
          LET permuted == [i \in 1..Len(transactions) |-> transactions[p[i]]]
              heap == HeapAfterCall(permuted, minOccurrences, knownSubscriptions)
          IN  /\ detectedAgain' =
                      detectRecurringTransactions(permuted, minOccurrences, timeZone,
                                                  knownSubscriptions)
              /\ transactions' = heap.transactions
              /\ knownSubscriptions' = heap.knownSubscriptions
    /\ pc' = "permuted"
    /\ UNCHANGED <<minOccurrences, timeZone, detectedSubscriptions>>
    /\ UNCHANGED <<normalizeVars, similarityVars, frequencyVars, totalsVars, lookupVars, storeVars, visitVars, trackerVars>>

NextOrder == DetectRecurringTransactions \/ DetectPermuted

SpecOrder == InitOrder /\ [][NextOrder]_vars

(***************************************************************************)
(* The transaction store (nw-backend/src/db/jsonDb.ts).  Every function    *)
(* loads the file, works on the array db.transactions and saves the file   *)
(* before it returns, synchronously, so a call is one step on the array.   *)
(* A stored transaction is a record; an optional field the object does not *)
(* carry (merchant_name) is a field the record does not have.  Identifiers *)
(* made by generateId are numbered in the order they are made, and `now`   *)
(* is the stamp of a moment on the clock's day.                            *)
(***************************************************************************)
\* { ...a, ...b }: the fields of both, b's value where both carry the field
Spread(a, b) ==
    [f \in DOMAIN a \cup DOMAIN b |-> IF f \in DOMAIN b THEN b[f] ELSE a[f]]

\* new Date().toISOString() on the given day
NowStamp(day) == 2 * day + 1

\* db.transactions.findIndex(t => t.plaid_transaction_id === plaidId), 0 for -1
FindIndexByPlaidId(txs, plaidId) ==
    LET found == {k \in 1..Len(txs) : txs[k].plaid_transaction_id = plaidId}
    IN  IF found = {} THEN 0 ELSE CHOOSE k \in found : \A other \in found : k <= other

\* faulty variant: every transaction of the batch is pushed as a new record
RECURSIVE UpsertFrom_AlwaysPush(_, _, _, _, _)
UpsertFrom_AlwaysPush(txs, data, i, now, fresh) ==
    IF i > Len(data) THEN [transactions |-> txs, nextId |-> fresh]
    ELSE UpsertFrom_AlwaysPush(
             Append(txs, Spread(data[i], [id |-> fresh, created_at |-> now,
                                          updated_at |-> now])),
             data, i + 1, now, fresh + 1)

\* the loop of transactions.upsert from its i-th transaction on; findIndex
\* searches the array as the earlier iterations left it
RECURSIVE UpsertFrom(_, _, _, _, _)
UpsertFrom(txs, data, i, now, fresh) ==
    IF i > Len(data) THEN [transactions |-> txs, nextId |-> fresh]
    ELSE LET txn == data[i]
             existingIndex == FindIndexByPlaidId(txs, txn.plaid_transaction_id)
         IN  IF existingIndex > 0
             THEN UpsertFrom([txs EXCEPT ![existingIndex] =
                                  Spread(Spread(@, txn), [updated_at |-> now])],
                             data, i + 1, now, fresh)
             ELSE UpsertFrom(Append(txs, Spread(txn, [id |-> fresh, created_at |-> now,
                                                      updated_at |-> now])),
                             data, i + 1, now, fresh + 1)

\* transactions.deleteByPlaidIds(plaidTransactionIds)
deleteByPlaidIds(txs, plaidTransactionIds) ==
    LET listed == {plaidTransactionIds[k] : k \in 1..Len(plaidTransactionIds)}
    IN  SelectSeq(txs, LAMBDA t : t.plaid_transaction_id \notin listed)

\* transactions.findAllByUserId(userId)
findAllByUserId(txs, userId) == SelectSeq(txs, LAMBDA t : t.user_id = userId)

\* t.merchant_name || t.name
MerchantNameOrName(t) ==
    IF "merchant_name" \in DOMAIN t /\ t.merchant_name # "" THEN t.merchant_name
    ELSE t.name

\* (t.merchant_name || t.name).toLowerCase().trim()
StoredMerchantKey(t) == trim(toLowerCase(MerchantNameOrName(t)))

\* faulty variant: the filter does not look at the user
deleteByMerchant_AnyUser(txs, userId, merchantName) ==
    LET normalizedMerchant == trim(toLowerCase(merchantName))
        kept == SelectSeq(txs, LAMBDA t : StoredMerchantKey(t) # normalizedMerchant)
    IN  [transactions |-> kept, deletedCount |-> Len(txs) - Len(kept)]

\* transactions.deleteByMerchant(userId, merchantName): the array it leaves
\* and the count it returns
deleteByMerchant(txs, userId, merchantName) ==
    LET normalizedMerchant == trim(toLowerCase(merchantName))
        kept == SelectSeq(txs, LAMBDA t : \/ t.user_id # userId
                                          \/ StoredMerchantKey(t) # normalizedMerchant)
    IN  [transactions |-> kept, deletedCount |-> Len(txs) - Len(kept)]

\* transactions.updateMerchant(userId, oldMerchantName, newMerchantName)
updateMerchant(txs, userId, oldMerchantName, newMerchantName, now) ==
    LET normalizedOld == trim(toLowerCase(oldMerchantName))
        hit == {k \in 1..Len(txs) : /\ txs[k].user_id = userId
                                    /\ StoredMerchantKey(txs[k]) = normalizedOld}
    IN  [transactions |->
             [k \in 1..Len(txs) |->
                 IF k \in hit
                 THEN Spread(txs[k], [merchant_name |-> newMerchantName,
                                      updated_at |-> now])
                 ELSE txs[k]],
         updatedCount |-> Cardinality(hit)]

\* a stored transaction as the detector reads it
AsDetectorInput(t) ==
    [merchant_name |-> IF "merchant_name" \in DOMAIN t THEN t.merchant_name ELSE "",
     name |-> t.name, amount |-> t.amount, date |-> t.date, pending |-> t.pending,
     created_at |-> t.created_at, account_id |-> t.account_id]

\* GET /api/plaid/recurring/:userId up to the detection: the descriptors of
\* the user's stored transactions
RecurringOf(txs, userId) ==
    LET allTransactions == findAllByUserId(txs, userId)
    IN  IF Len(allTransactions) = 0 THEN <<>>
        ELSE detectRecurringTransactions(
                 [k \in 1..Len(allTransactions) |-> AsDetectorInput(allTransactions[k])],
                 2, UTC, KNOWN_SUBSCRIPTIONS)

(***************************************************************************)
(* Specification SpecStore: calls of the store's functions one after the   *)
(* other on a file that starts empty, and the recurring list of a user     *)
(* read from the store between them.                                       *)
(***************************************************************************)
MaxCalls == 3
FirstDay == 500

StoreUsers == {"u1", "u2"}

Netflix1 ==
    [user_id |-> "u1", plaid_transaction_id |-> "p1", account_id |-> "acc",
     amount |-> 1599, date |-> 379, name |-> "NFLX", merchant_name |-> "Netflix",
     pending |-> FALSE]
Netflix1Renamed ==
    [user_id |-> "u1", plaid_transaction_id |-> "p1", account_id |-> "acc2",
     amount |-> 1799, date |-> 380, name |-> "Hulu", pending |-> TRUE]
Netflix2 ==
    [user_id |-> "u1", plaid_transaction_id |-> "p2", account_id |-> "acc",
     amount |-> 1599, date |-> 410, name |-> "NFLX", merchant_name |-> " NETFLIX ",
     pending |-> FALSE]
Cafe1 ==
    [user_id |-> "u1", plaid_transaction_id |-> "p3", account_id |-> "acc",
     amount |-> 1000, date |-> 386, name |-> "Cafe", pending |-> FALSE]
Cafe2 ==
    [user_id |-> "u1", plaid_transaction_id |-> "p4", account_id |-> "acc",
     amount |-> 1000, date |-> 417, name |-> "Cafe", merchant_name |-> "",
     pending |-> FALSE]
Other1 ==
    [user_id |-> "u2", plaid_transaction_id |-> "p5", account_id |-> "acc",
     amount |-> 1599, date |-> 379, name |-> "NFLX", merchant_name |-> "Netflix",
     pending |-> FALSE]
Other2 ==
    [user_id |-> "u2", plaid_transaction_id |-> "p6", account_id |-> "acc",
     amount |-> 1599, date |-> 410, name |-> "NFLX", merchant_name |-> "netflix",
     pending |-> FALSE]

\* the arrays handed to upsert; one of them names p1 twice
BatchChoices ==
    {<<Netflix1, Netflix2>>, <<Netflix1Renamed>>, <<Netflix1, Cafe1, Netflix1Renamed>>,
     <<Cafe1, Cafe2>>, <<Other1, Other2>>, <<Netflix1, Netflix2, Cafe1, Cafe2, Other1>>}

PlaidIdChoices == {<<"p1">>, <<"p1", "p3", "p5">>}

MerchantChoices == {" NETFLIX ", "cafe", "Hulu"}

RenameChoices == {<<"netflix", "Cafe">>, <<"Cafe", "Netflix">>, <<"hulu", "Max">>}

InitStore ==
    /\ pc = "store"
    /\ stored = <<>>
    /\ storedBefore = <<>>
    /\ lastCall = NoCall
    /\ calls = 0
    /\ clock = FirstDay
    /\ nextId = 1
    /\ recurring = NoRecurring
    /\ IdleNormalize /\ IdleSimilarity /\ IdleFrequency /\ IdleTotals /\ IdleDetect /\ IdleLookup /\ IdleVisit /\ IdleTracker

\* what every call of a store function does to the bookkeeping of the model
Called(call) ==
    /\ pc = "store"
    /\ calls < MaxCalls
    /\ calls' = calls + 1
    /\ storedBefore' = stored
    /\ lastCall' = call
    /\ clock' = clock + 1
    /\ recurring' = NoRecurring
    /\ UNCHANGED pc
    /\ UNCHANGED <<normalizeVars, similarityVars, frequencyVars, totalsVars, detectVars, lookupVars, visitVars, trackerVars>>

Upsert ==
    \E data \in BatchChoices :
        LET after == UpsertFrom(stored, data, 1, NowStamp(clock), nextId)
        IN  /\ stored' = after.transactions
            /\ nextId' = after.nextId
            /\ Called([op |-> "upsert", data |-> data])

DeleteByPlaidIds ==
    \E plaidTransactionIds \in PlaidIdChoices :
        /\ stored' = deleteByPlaidIds(stored, plaidTransactionIds)
        /\ UNCHANGED nextId
        /\ Called([op |-> "deleteByPlaidIds", plaidTransactionIds |-> plaidTransactionIds])

DeleteByMerchant ==
    \E userId \in StoreUsers, merchantName \in MerchantChoices :
        LET after == deleteByMerchant(stored, userId, merchantName)
        IN  /\ stored' = after.transactions
            /\ UNCHANGED nextId
            /\ Called([op |-> "deleteByMerchant", userId |-> userId,
                       merchantName |-> merchantName, returned |-> after.deletedCount])

UpdateMerchant ==
    \E userId \in StoreUsers, names \in RenameChoices :
        LET after == updateMerchant(stored, userId, names[1], names[2], NowStamp(clock))
        IN  /\ stored' = after.transactions
            /\ UNCHANGED nextId
            /\ Called([op |-> "updateMerchant", userId |-> userId,
                       oldMerchantName |-> names[1], newMerchantName |-> names[2],
                       returned |-> after.updatedCount])

\* the recurring list of one user, read from the store as it stands
GetRecurring ==
    /\ pc = "store"
    /\ ~recurring.read
    /\ \E userId \in StoreUsers :
           recurring' = [read |-> TRUE, userId |-> userId,
                         subscriptions |-> RecurringOf(stored, userId)]
    /\ UNCHANGED <<pc, stored, storedBefore, lastCall, calls, clock, nextId>>
    /\ UNCHANGED <<normalizeVars, similarityVars, frequencyVars, totalsVars, detectVars, lookupVars, visitVars, trackerVars>>

NextStore ==
    Upsert \/ DeleteByPlaidIds \/ DeleteByMerchant \/ UpdateMerchant \/ GetRecurring

SpecStore == InitStore /\ [][NextStore]_vars

(***************************************************************************)
(* Specification SpecVisit: POST /api/subscriptions/:id/visit              *)
(* (nw-backend/src/server.ts).  The handler awaits the select of the row,  *)
(* then awaits the update that writes the values it computed from what it  *)
(* read; between the two awaits the server runs other requests.  The table *)
(* holds the one subscription the requests name.                           *)
(***************************************************************************)
MaxRequests == 2

Requests == 1..MaxRequests

\* request bodies: without time_spent_seconds, and with it
VisitBodies == {EmptyBody, [time_spent_seconds |-> 30], [time_spent_seconds |-> 45]}

\* const { time_spent_seconds = 0 } = req.body
TimeSpentSeconds(body) ==
    IF "time_spent_seconds" \in DOMAIN body THEN body.time_spent_seconds ELSE 0

FirstRows ==
    {[visit_count |-> v, total_time_seconds |-> s, last_visit |-> 0, updated_at |-> 0] :
        v \in {0, 3}, s \in {0, 120}}

InitVisit ==
    /\ pc = "visit"
    /\ subscriptionRow \in FirstRows
    /\ firstRow = subscriptionRow
    /\ visitRequests = [r \in Requests |-> NotReceived]
    /\ visitClock = 1
    /\ IdleNormalize /\ IdleSimilarity /\ IdleFrequency /\ IdleTotals /\ IdleDetect /\ IdleLookup /\ IdleStore /\ IdleTracker

\* the request arrives and the select of visit_count and total_time_seconds
\* settles
VisitSelect(r) ==
    /\ pc = "visit"
    /\ visitRequests[r].at = "none"
    /\ \E body \in VisitBodies :
           visitRequests' =
               [visitRequests EXCEPT ![r] =
                   [at |-> "selected", body |-> body,
                    current |-> [visit_count |-> subscriptionRow.visit_count,
                                 total_time_seconds |-> subscriptionRow.total_time_seconds]]]
    /\ UNCHANGED <<pc, subscriptionRow, firstRow, visitClock>>
    /\ UNCHANGED <<normalizeVars, similarityVars, frequencyVars, totalsVars, detectVars, lookupVars, storeVars, trackerVars>>

\* the row after .update({ visit_count: current.visit_count + 1, ... })
VisitUpdated(row, current, body, now) ==
    [row EXCEPT !.visit_count = current.visit_count + 1,
                !.total_time_seconds = current.total_time_seconds + TimeSpentSeconds(body),
                !.last_visit = now,
                !.updated_at = now]

\* the update settles and the response is sent
VisitUpdate(r) ==
    /\ pc = "visit"
    /\ visitRequests[r].at = "selected"
    /\ subscriptionRow' = VisitUpdated(subscriptionRow, visitRequests[r].current,
                                       visitRequests[r].body, visitClock)
    /\ visitRequests' = [visitRequests EXCEPT ![r].at = "completed"]
    /\ visitClock' = visitClock + 1
    /\ UNCHANGED <<pc, firstRow>>
    /\ UNCHANGED <<normalizeVars, similarityVars, frequencyVars, totalsVars, detectVars, lookupVars, storeVars, trackerVars>>

NextVisit == \E r \in Requests : VisitSelect(r) \/ VisitUpdate(r)

SpecVisit == InitVisit /\ [][NextVisit]_vars

(***************************************************************************)
(* The tab tracker (background service worker of the browser extension).   *)
(* Date.now() is counted in milliseconds from shortly before the worker    *)
(* started.  The Maps openSubscriptionTabs and pendingTimeUpdates are      *)
(* sequences of entries in insertion order; lastVisitCounted maps a        *)
(* subscription id to a time, 0 for no entry.  An async function that has  *)
(* reached `await fetch` is a task: what it computed before the await and  *)
(* where it goes on when the response arrives.  The backend holds, for     *)
(* each subscription, visit_count and total_time_seconds, and handles a    *)
(* request when it is sent; every request is answered with ok.             *)
(***************************************************************************)
MIN_VISIT_INTERVAL_MS == 5 * 60 * 1000

StartsWith(s, w) == Len(s) >= Len(w) /\ SubSeq(s, 1, Len(w)) = w

\* the part of s before the first occurrence of w, all of s without one
RECURSIVE Before(_, _, _)
Before(s, w, i) ==
    IF i + Len(w) - 1 > Len(s) THEN s
    ELSE IF SubSeq(s, i, i + Len(w) - 1) = w THEN SubSeq(s, 1, i - 1)
    ELSE Before(s, w, i + 1)

\* new URL(url).hostname.toLowerCase(), "" for null (no scheme: URL throws)
extractDomain(url) ==
    LET scheme == Before(url, "://", 1)
    IN  IF scheme = url THEN ""
        ELSE toLowerCase(Before(SubSeq(url, Len(scheme) + 4, Len(url)), "/", 1))

stripWww(domain) ==
    IF StartsWith(domain, "www.") THEN SubSeq(domain, 5, Len(domain)) ELSE domain

NoSubscription == [id |-> ""]

\* the first subscription whose url's domain matches the url's, or none
RECURSIVE findMatchingSubscription(_, _, _)
findMatchingSubscription(subs, url, i) ==
    LET strippedDomain == stripWww(extractDomain(url))
    IN  IF extractDomain(url) = "" \/ i > Len(subs) THEN NoSubscription
        ELSE LET strippedSubDomain == stripWww(extractDomain(subs[i].url))
             IN  IF /\ subs[i].url # ""
                    /\ extractDomain(subs[i].url) # ""
                    /\ \/ strippedDomain = strippedSubDomain
                       \/ EndsWith(strippedDomain, "." \o strippedSubDomain)
                       \/ EndsWith(strippedSubDomain, "." \o strippedDomain)
                 THEN subs[i]
                 ELSE findMatchingSubscription(subs, url, i + 1)

isPlaidSubscription(subscriptionId) == StartsWith(subscriptionId, "recurring-")

\* Map.get, Map.set and Map.delete on a Map kept as a sequence of entries
EntryIndex(map, key) ==
    LET at == {k \in 1..Len(map) : map[k].key = key}
    IN  IF at = {} THEN 0 ELSE CHOOSE k \in at : TRUE

MapHas(map, key) == EntryIndex(map, key) > 0
MapGet(map, key) == map[EntryIndex(map, key)].value

MapSet(map, key, value) ==
    IF MapHas(map, key) THEN [map EXCEPT ![EntryIndex(map, key)].value = value]
    ELSE Append(map, [key |-> key, value |-> value])

MapDelete(map, key) == SelectSeq(map, LAMBDA e : e.key # key)

\* pendingTimeUpdates.get(subscriptionId) || 0
PendingSeconds(pending, subscriptionId) ==
    IF MapHas(pending, subscriptionId) THEN MapGet(pending, subscriptionId) ELSE 0

\* Math.floor((now - startTime) / 1000)
ElapsedSeconds(now, startTime) == (now - startTime) \div 1000

CacheIndex(subs, subscriptionId) ==
    CHOOSE k \in 1..Len(subs) : subs[k].id = subscriptionId

\* updateSubscriptionStats up to its await: updatedData, and the backend
\* after the request.  PUT /api/subscriptions/:id stores the values of the
\* body; POST /api/plaid/usage adds addSeconds and, if asked, one visit.
UpdatedData(subs, subscriptionId, addSeconds, incrementVisit, now) ==
    LET sub == subs[CacheIndex(subs, subscriptionId)]
        timed == [total_time_seconds |-> sub.total_time_seconds + addSeconds,
                  last_visit |-> now]
    IN  IF incrementVisit THEN Spread(timed, [visit_count |-> sub.visit_count + 1])
        ELSE timed

BackendAfter(rows, subs, subscriptionId, addSeconds, incrementVisit, now) ==
    IF isPlaidSubscription(subscriptionId)
    THEN [rows EXCEPT ![subscriptionId] =
             [@ EXCEPT !.total_time_seconds = @ + addSeconds,
                       !.visit_count = IF incrementVisit THEN @ + 1 ELSE @,
                       !.last_visit = now]]
    ELSE [rows EXCEPT ![subscriptionId] =
             Spread(@, UpdatedData(subs, subscriptionId, addSeconds, incrementVisit, now))]

\* updateSubscriptionStats after its await: the cache takes updatedData
CacheAfter(subs, subscriptionId, updatedData) ==
    [subs EXCEPT ![CacheIndex(subs, subscriptionId)] = Spread(@, updatedData)]

\* shouldCountVisit(subscriptionId)
shouldCountVisit(counted, subscriptionId, now) ==
    LET lastVisit == counted[subscriptionId]
    IN  IF lastVisit = 0 THEN TRUE
        ELSE now - lastVisit >= MIN_VISIT_INTERVAL_MS

\* stopTrackingTab(tabId): the two Maps after the call
StoppedTracking(tabs, pending, tabId, now) ==
    IF ~MapHas(tabs, tabId) THEN [tabs |-> tabs, pending |-> pending]
    ELSE LET tracked == MapGet(tabs, tabId)
             elapsedSeconds == ElapsedSeconds(now, tracked.startTime)
         IN  [tabs |-> MapDelete(tabs, tabId),
              pending |-> IF elapsedSeconds > 0
                          THEN MapSet(pending, tracked.subscriptionId,
                                      PendingSeconds(pending, tracked.subscriptionId)
                                          + elapsedSeconds)
                          ELSE pending]

\* the first loop of flushTimeUpdates from the i-th open tab on
RECURSIVE Accumulated(_, _, _, _)
Accumulated(tabs, pending, now, i) ==
    IF i > Len(tabs) THEN [tabs |-> tabs, pending |-> pending]
    ELSE LET tracked == tabs[i].value
             elapsedSeconds == ElapsedSeconds(now, tracked.startTime)
         IN  IF elapsedSeconds > 0
             THEN Accumulated([tabs EXCEPT ![i].value.startTime = now],
                              MapSet(pending, tracked.subscriptionId,
                                     PendingSeconds(pending, tracked.subscriptionId)
                                         + elapsedSeconds),
                              now, i + 1)
             ELSE Accumulated(tabs, pending, now, i + 1)

\* the second loop of flushTimeUpdates: the entry after the index-th that has
\* seconds to send, 0 when the iterator is done
RECURSIVE NextToSend(_, _)
NextToSend(pending, index) ==
    IF index + 1 > Len(pending) THEN 0
    ELSE IF pending[index + 1].value > 0 THEN index + 1
    ELSE NextToSend(pending, index + 1)

\* pendingTimeUpdates.clear(): the iterators of the other runs of
\* flushTimeUpdates go on with the entries set after it
Restarted(running) ==
    [k \in 1..Len(running) |->
        IF running[k].kind = "flush" THEN [running[k] EXCEPT !.index = 0] ELSE running[k]]

Without(running, k) ==
    [j \in 1..(Len(running) - 1) |-> IF j < k THEN running[j] ELSE running[j + 1]]

(***************************************************************************)
(* Specification SpecTracker: tab events, the flush timer and focus loss,  *)
(* responses of the backend and the passing of time, in any order.         *)
(***************************************************************************)
MaxEvents == 3
MaxTicks == 2
FirstNow == 1000

Tabs == {1, 2}
TabUrls ==
    {"https://netflix.com/browse", "https://open.spotify.com/", "https://example.org/",
     "chrome://newtab"}
TickChoices == {1000, MIN_VISIT_INTERVAL_MS}

FirstSubscriptions ==
    << [id |-> "s1", name |-> "Netflix", url |-> "https://www.netflix.com",
        visit_count |-> 0, total_time_seconds |-> 0, last_visit |-> 0],
       [id |-> "recurring-spotify", name |-> "Spotify", url |-> "https://spotify.com",
        visit_count |-> 0, total_time_seconds |-> 0, last_visit |-> 0] >>

SubscriptionIds == {FirstSubscriptions[k].id : k \in 1..Len(FirstSubscriptions)}

InitTracker ==
    /\ pc = "tracker"
    /\ subscriptionCache = FirstSubscriptions
    /\ openSubscriptionTabs = <<>>
    /\ pendingTimeUpdates = <<>>
    /\ lastVisitCounted = [s \in SubscriptionIds |-> 0]
    /\ tasks = <<>>
    /\ backend = [s \in SubscriptionIds |->
                     [visit_count |-> 0, total_time_seconds |-> 0, last_visit |-> 0]]
    /\ trackerNow = FirstNow
    /\ trackerEvents = 0
    /\ trackerTicks = 0
    /\ trackedSeconds = [s \in SubscriptionIds |-> 0]
    /\ visitsSent = [s \in SubscriptionIds |-> <<>>]
    /\ IdleNormalize /\ IdleSimilarity /\ IdleFrequency /\ IdleTotals /\ IdleDetect /\ IdleLookup /\ IdleStore /\ IdleVisit

\* an event is taken up
Handled ==
    /\ pc = "tracker"
    /\ trackerEvents < MaxEvents
    /\ trackerEvents' = trackerEvents + 1
    /\ UNCHANGED <<pc, trackerNow, trackerTicks, trackedSeconds>>
    /\ UNCHANGED <<normalizeVars, similarityVars, frequencyVars, totalsVars, detectVars, lookupVars, storeVars, visitVars>>

\* startTrackingTab(subscription, tabId, domain) up to its await or its end
StartTrackingTab(subscription, tabId, domain) ==
    IF /\ MapHas(openSubscriptionTabs, tabId)
       /\ MapGet(openSubscriptionTabs, tabId).subscriptionId = subscription.id
    THEN UNCHANGED <<openSubscriptionTabs, pendingTimeUpdates, tasks, backend, visitsSent>>
    ELSE /\ openSubscriptionTabs' =
                MapSet(openSubscriptionTabs, tabId,
                       [subscriptionId |-> subscription.id, domain |-> domain,
                        startTime |-> trackerNow])
         /\ UNCHANGED pendingTimeUpdates
         /\ IF shouldCountVisit(lastVisitCounted, subscription.id, trackerNow)
            THEN /\ backend' = BackendAfter(backend, subscriptionCache, subscription.id,
                                            0, TRUE, trackerNow)
                 /\ visitsSent' = [visitsSent EXCEPT ![subscription.id] =
                                      Append(@, trackerNow)]
                 /\ tasks' = Append(tasks,
                                [kind |-> "start", subscriptionId |-> subscription.id,
                                 updatedData |-> UpdatedData(subscriptionCache,
                                                     subscription.id, 0, TRUE, trackerNow)])
            ELSE UNCHANGED <<tasks, backend, visitsSent>>

\* stopTrackingTab(tabId)
StopTrackingTab(tabId) ==
    LET after == StoppedTracking(openSubscriptionTabs, pendingTimeUpdates, tabId,
                                 trackerNow)
    IN  /\ openSubscriptionTabs' = after.tabs
        /\ pendingTimeUpdates' = after.pending
        /\ UNCHANGED <<tasks, backend, visitsSent>>

\* processTabUrl(tabId, url), called by the listeners of tabs.onActivated,
\* tabs.onUpdated and windows.onFocusChanged
ProcessTabUrl ==
    \E tabId \in Tabs, url \in TabUrls :
        /\ Handled
        /\ IF ~StartsWith(url, "http") THEN StopTrackingTab(tabId)
           ELSE LET matchingSub == findMatchingSubscription(subscriptionCache, url, 1)
                IN  IF matchingSub # NoSubscription
                    THEN StartTrackingTab(matchingSub, tabId, extractDomain(url))
                    ELSE StopTrackingTab(tabId)
        /\ UNCHANGED <<subscriptionCache, lastVisitCounted>>

\* the listener of tabs.onRemoved
TabRemoved ==
    \E tabId \in Tabs :
        /\ Handled
        /\ StopTrackingTab(tabId)
        /\ UNCHANGED <<subscriptionCache, lastVisitCounted>>

\* the second loop of flushTimeUpdates from the entry after the index-th, for
\* the run that is task k (0: a run that starts), up to its await or its end
FlushFrom(pending, running, k, index) ==
    LET next == NextToSend(pending, index)
    IN  IF next = 0
        THEN /\ pendingTimeUpdates' = <<>>
             /\ tasks' = Restarted(IF k = 0 THEN running ELSE Without(running, k))
             /\ UNCHANGED backend
        ELSE LET subscriptionId == pending[next].key
                 seconds == pending[next].value
                 task == [kind |-> "flush", subscriptionId |-> subscriptionId,
                          updatedData |-> UpdatedData(subscriptionCache', subscriptionId,
                                                     seconds, FALSE, trackerNow),
                          index |-> next]
             IN  /\ pendingTimeUpdates' = pending
                 /\ backend' = BackendAfter(backend, subscriptionCache', subscriptionId,
                                            seconds, FALSE, trackerNow)
                 /\ tasks' = IF k = 0 THEN Append(running, task)
                             ELSE [running EXCEPT ![k] = task]

\* flushTimeUpdates(), called by the 30-second timer and on loss of focus,
\* up to its first await or its end
FlushTimeUpdates ==
    LET after == Accumulated(openSubscriptionTabs, pendingTimeUpdates, trackerNow, 1)
    IN  /\ Handled
        /\ openSubscriptionTabs' = after.tabs
        /\ subscriptionCache' = subscriptionCache
        /\ FlushFrom(after.pending, tasks, 0, 0)
        /\ UNCHANGED <<lastVisitCounted, visitsSent>>

\* the response to the request of task k arrives: updateSubscriptionStats
\* finishes and its caller goes on to its next await or its end
Resume ==
    \E k \in 1..Len(tasks) :
        /\ pc = "tracker"
        /\ subscriptionCache' =
               CacheAfter(subscriptionCache, tasks[k].subscriptionId, tasks[k].updatedData)
        /\ IF tasks[k].kind = "start"
           THEN /\ lastVisitCounted' =
                       [lastVisitCounted EXCEPT ![tasks[k].subscriptionId] = trackerNow]
                /\ tasks' = Without(tasks, k)
                /\ UNCHANGED <<pendingTimeUpdates, backend>>
           ELSE /\ FlushFrom(pendingTimeUpdates, tasks, k, tasks[k].index)
                /\ UNCHANGED lastVisitCounted
        /\ UNCHANGED <<pc, openSubscriptionTabs, visitsSent, trackerNow, trackerEvents,
                       trackerTicks, trackedSeconds>>
        /\ UNCHANGED <<normalizeVars, similarityVars, frequencyVars, totalsVars, detectVars, lookupVars, storeVars, visitVars>>

\* time passes: every open tab has been tracked that much longer
Tick ==
    \E ms \in TickChoices :
        /\ pc = "tracker"
        /\ trackerTicks < MaxTicks
        /\ trackerTicks' = trackerTicks + 1
        /\ trackerNow' = trackerNow + ms
        /\ trackedSeconds' =
               [s \in SubscriptionIds |->
                   trackedSeconds[s]
                     + (ms \div 1000)
                         * Cardinality({k \in 1..Len(openSubscriptionTabs) :
                                openSubscriptionTabs[k].value.subscriptionId = s})]
        /\ UNCHANGED <<pc, subscriptionCache, openSubscriptionTabs, pendingTimeUpdates,
                       lastVisitCounted, tasks, backend, trackerEvents, visitsSent>>
        /\ UNCHANGED <<normalizeVars, similarityVars, frequencyVars, totalsVars, detectVars, lookupVars, storeVars, visitVars>>

NextTracker == ProcessTabUrl \/ TabRemoved \/ FlushTimeUpdates \/ Resume \/ Tick

SpecTracker == InitTracker /\ [][NextTracker]_vars

(***************************************************************************)
(* All calls together                                                      *)
(***************************************************************************)
Init ==
    \/ InitNormalize \/ InitSimilarity \/ InitFrequency \/ InitTotals
    \/ InitDetect \/ InitBilling \/ InitLookup \/ InitGrouping \/ InitOrder
    \/ InitStore \/ InitVisit \/ InitTracker

Next ==
    \/ NextNormalize \/ NextSimilarity \/ NextFrequency \/ NextTotals \/ NextDetect
    \/ NextLookup \/ NextOrder \/ NextStore \/ NextVisit
    \/ NextTracker

Spec == Init /\ [][Next]_vars

\* What the claims about detection speak of: the merchant keys of the input,
\* a key's qualifying transactions (amount > 0, not pending), its descriptors.
InputKeys == {getMerchantKey(transactions[i]) : i \in 1..Len(transactions)}

QualifyingGroup(key) ==
    SelectSeq(transactions,
              LAMBDA t : t.amount > 0 /\ ~t.pending /\ getMerchantKey(t) = key)

GroupDates(g) == [i \in 1..Len(g) |-> g[i].date]

DescriptorsOf(key) ==
    {i \in 1..Len(detectedSubscriptions) :
        detectedSubscriptions[i].id = "recurring-" \o ReplaceSpaceRuns(key, "-")}

\* |amount - mean| / mean compared with 20%, mean = sum / n:
\* 5 * |n * amount - sum| compared with sum
Deviation5(g, i) == 5 * Abs(Len(g) * g[i].amount - SumAmounts(g, 1))
WithinTwentyPercent(g) == \A i \in 1..Len(g) : Deviation5(g, i) <= SumAmounts(g, 1)
MaxDeviationExactlyTwenty(g) ==
    /\ WithinTwentyPercent(g)
    /\ \E i \in 1..Len(g) : Deviation5(g, i) = SumAmounts(g, 1)
SomeDeviationAboveTwenty(g) == \E i \in 1..Len(g) : Deviation5(g, i) > SumAmounts(g, 1)

\* C6: for every threshold m, a merchant key with exactly m - 1 qualifying
\* transactions produces no descriptor, and a key with exactly m qualifying
\* transactions whose amounts are consistent (within 20% of the mean) or
\* whose frequency is not UNKNOWN produces exactly one descriptor.
C6_MinimumOccurrence ==
    pc = "detected" =>
        \A key \in InputKeys :
            LET g == QualifyingGroup(key)
            IN  /\ Len(g) = minOccurrences - 1 => DescriptorsOf(key) = {}
                /\ ( /\ Len(g) = minOccurrences
                     /\ \/ WithinTwentyPercent(g)
                        \/ MeanGapBucket(GroupDates(g)) # "UNKNOWN" )
                      => Cardinality(DescriptorsOf(key)) = 1

\* C7: a group whose maximum relative deviation from the mean is exactly
\* 20% counts as amount-consistent, so it yields a descriptor even when its
\* frequency is UNKNOWN; a group with a deviation above 20% and frequency
\* UNKNOWN is discarded.
C7_AmountBoundary ==
    pc = "detected" =>
        \A key \in InputKeys :
            LET g == QualifyingGroup(key)
            IN  ( /\ Len(g) >= minOccurrences
                  /\ Len(g) >= 1
                  /\ MeanGapBucket(GroupDates(g)) = "UNKNOWN" )
                => /\ MaxDeviationExactlyTwenty(g) => DescriptorsOf(key) # {}
                   /\ SomeDeviationAboveTwenty(g) => DescriptorsOf(key) = {}

\* C10: a group that meets the minimum-occurrence threshold is dropped if
\* and only if its frequency is UNKNOWN and its amounts are not consistent
\* (not all within 20% of the mean).
C10_DropRule ==
    pc = "detected" =>
        \A key \in InputKeys :
            LET g == QualifyingGroup(key)
            IN  (Len(g) >= minOccurrences /\ Len(g) >= 1)
                => ( DescriptorsOf(key) = {}
                     <=> ( /\ MeanGapBucket(GroupDates(g)) = "UNKNOWN"
                           /\ ~WithinTwentyPercent(g) ) )

\* What the code does instead, off and on the 20% boundary: a group of at
\* least minOccurrences qualifying transactions is dropped exactly when its
\* frequency is UNKNOWN and some amount deviates from the mean by 20% or more;
\* smaller groups give nothing; no key has two descriptors.
DetectStrictlyInsideTwenty ==
    pc = "detected" =>
        /\ \A key \in InputKeys :
              LET g == QualifyingGroup(key)
              IN  /\ Cardinality(DescriptorsOf(key)) <= 1
                  /\ DescriptorsOf(key) = {}
                       <=> \/ Len(g) < minOccurrences
                           \/ Len(g) = 0
                           \/ /\ MeanGapBucket(GroupDates(g)) = "UNKNOWN"
                              /\ ~(\A i \in 1..Len(g) : Deviation5(g, i) < SumAmounts(g, 1))
        /\ \A i \in 1..Len(detectedSubscriptions) :
              \E key \in InputKeys : i \in DescriptorsOf(key)

\* C11: detectRecurringTransactions returns a list for every finite input,
\* and a transaction with a missing or empty merchant label, a zero amount
\* or (at a threshold of 2 or more) a single occurrence appears in no
\* descriptor: a key without label has no descriptor, a key with a single
\* qualifying transaction has none, and no descriptor counts a zero amount.
C11_MalformedExcluded ==
    pc = "detected" =>
        /\ DOMAIN detectedSubscriptions = 1..Len(detectedSubscriptions)
        /\ \A i \in 1..Len(transactions) :
              LET t == transactions[i]
                  key == getMerchantKey(t)
                  g == QualifyingGroup(key)
              IN  /\ MerchantLabel(t) = "" => DescriptorsOf(key) = {}
                  /\ (minOccurrences >= 2 /\ Len(g) = 1) => DescriptorsOf(key) = {}
                  /\ t.amount = 0 =>
                        \A d \in DescriptorsOf(key) :
                            detectedSubscriptions[d].transaction_count
                                = Cardinality({j \in 1..Len(transactions) :
                                      /\ getMerchantKey(transactions[j]) = key
                                      /\ transactions[j].amount # 0
                                      /\ IsCharge(transactions[j])})

CandidateNames(i) ==
    {CURATED_CANCELLATIONS[i].name}
        \cup {CURATED_CANCELLATIONS[i].aliases[a] :
                 a \in 1..Len(CURATED_CANCELLATIONS[i].aliases)}

ScoreOf(query, i) ==
    LET similarities ==
            {calculateSimilarity(query, normalizeServiceName(c)) : c \in CandidateNames(i)}
    IN  CHOOSE m \in similarities : \A n \in similarities : n <= m

ScoresOf(query) == [i \in Entries |-> ScoreOf(query, i)]

MaximumOf(scores) == CHOOSE m \in {scores[i] : i \in Entries} : \A i \in Entries : scores[i] <= m

FirstWith(scores, m) == CHOOSE i \in Entries : scores[i] = m /\ \A j \in 1..(i - 1) : scores[j] # m

\* the call got past the guard and found no exact key or alias
NoExactMatch == pc = "returned" /\ trim(serviceName) # "" /\ curatedEntry = NoEntry

\* C13: when no exact key or alias matches, getCancellationLink never throws,
\* returns the best-scoring entry with its score as confidence when that
\* score is strictly greater than 75, and returns null otherwise.
C13_StrictThresholdNeverThrows ==
    NoExactMatch =>
        /\ cancellationLink # Rejected
        /\ LET scores == ScoresOf(normalizeServiceName(serviceName))
               best == MaximumOf(scores)
           IN  IF best > 75
               THEN cancellationLink =
                        CancellationLink(CURATED_CANCELLATIONS[FirstWith(scores, best)], best)
               ELSE cancellationLink = Null

\* C14: a query whose normalizeServiceName is a key of the curated table
\* resolves to that key's entry with confidence 100.
C14_NormalizedKeyIsExact ==
    pc = "returned" =>
        \A i \in Entries :
            normalizeServiceName(serviceName) = CURATED_CANCELLATIONS[i].key
                => cancellationLink = CancellationLink(CURATED_CANCELLATIONS[i], 100)

Returned == pc \in {"detected", "repeated"}

\* C16: three non-pending charges of 15.99 for one merchant dated
\* 2024-01-15, 2024-02-15 and 2024-03-15 yield exactly one descriptor, with
\* frequency MONTHLY, amount 15.99, status MATURE and next_projected_date
\* 2024-04-15.
C16_BasicMonthly ==
    (/\ Returned
     /\ Len(transactions) = 3
     /\ \A i \in 1..3 :
           /\ transactions[i].merchant_name = "Netflix"
           /\ transactions[i].amount = 1599
           /\ ~transactions[i].pending
     /\ {transactions[i].date : i \in 1..3}
           = {MakeDay(2024, 1, 15), MakeDay(2024, 2, 15), MakeDay(2024, 3, 15)})
    => /\ Len(detectedSubscriptions) = 1
       /\ detectedSubscriptions[1].frequency = "MONTHLY"
       /\ detectedSubscriptions[1].amount = 1599
       /\ detectedSubscriptions[1].status = "MATURE"
       /\ detectedSubscriptions[1].next_projected_date = MakeDay(2024, 4, 15)

\* the merchant "cafe" has exactly two qualifying charges, of 10.00 and of
\* 95.00, and the threshold lets a group of two through
TwoUnevenCharges ==
    /\ Returned
    /\ minOccurrences <= 2
    /\ LET g == QualifyingGroup("cafe")
       IN  Len(g) = 2 /\ {g[1].amount, g[2].amount} = {1000, 9500}

DaysApart == Abs(QualifyingGroup("cafe")[1].date - QualifyingGroup("cafe")[2].date)

\* C17 as stated: two charges of 10.00 and 95.00 sixty days apart are
\* classified UNKNOWN with inconsistent amounts, so the merchant has no
\* descriptor.
C17_SixtyDaysDiscarded ==
    (TwoUnevenCharges /\ DaysApart = 60) => DescriptorsOf("cafe") = {}

\* C17 amended: two charges of 10.00 and 95.00 are discarded when they are
\* more than 400 days apart; from 46 to 400 days apart (60, for one) the
\* frequency is ANNUALLY and the merchant has one descriptor, with amount
\* 52.50 and status ACTIVE.
C17_DiscardedBeyondFourHundredDays ==
    (TwoUnevenCharges /\ DaysApart > 45) =>
        IF DaysApart > 400 THEN DescriptorsOf("cafe") = {}
        ELSE \E i \in 1..Len(detectedSubscriptions) :
                /\ DescriptorsOf("cafe") = {i}
                /\ detectedSubscriptions[i].frequency = "ANNUALLY"
                /\ detectedSubscriptions[i].amount = 5250
                /\ detectedSubscriptions[i].status = "ACTIVE"

C17_Witness ==
    /\ TwoUnevenCharges /\ DaysApart = 60
    /\ \E i \in DescriptorsOf("cafe") : detectedSubscriptions[i].frequency = "ANNUALLY"

\* the stamp of a transaction's created_at, or of its date without one
SeenAt(t) == IF t.created_at = NoDate THEN 2 * t.date ELSE t.created_at

\* a calendar date advanced by the interval of a frequency
Advanced(day, freq) ==
    CASE freq = "WEEKLY"   -> day + 7
      [] freq = "BIWEEKLY" -> day + 14
      [] freq = "MONTHLY"  -> MakeDay(YearOf(day), MonthOf(day) + 1, DateOf(day))
      [] freq = "ANNUALLY" -> MakeDay(YearOf(day) + 1, MonthOf(day), DateOf(day))

\* C18: a descriptor has no next_projected_date if and only if its frequency
\* is UNKNOWN; otherwise next_projected_date is the calendar day of its own
\* last_date advanced by 7 days (WEEKLY), 14 days (BIWEEKLY), one calendar
\* month (MONTHLY) or one calendar year (ANNUALLY).
C18_NextFromLastDate ==
    Returned =>
        \A i \in 1..Len(detectedSubscriptions) :
            LET d == detectedSubscriptions[i]
            IN  /\ d.next_projected_date = NoDate <=> d.frequency = "UNKNOWN"
                /\ d.frequency # "UNKNOWN"
                      => d.next_projected_date = Advanced(d.last_date \div 2, d.frequency)

\* C19: the last_date of a descriptor is the largest created_at (date when
\* there is none) among the qualifying transactions of its merchant,
\* whatever the order of the input and whichever has the latest date.
C19_LastDateIsLatestSeen ==
    Returned =>
        \A key \in InputKeys : \A i \in DescriptorsOf(key) :
            LET g == QualifyingGroup(key)
                seen == {SeenAt(g[j]) : j \in 1..Len(g)}
            IN  /\ detectedSubscriptions[i].last_date \in seen
                /\ \A x \in seen : x <= detectedSubscriptions[i].last_date

\* the latest-dated charge of the group is not the one seen last
C19_Witness ==
    /\ Returned
    /\ \E i \in DescriptorsOf("netflix") :
          LET g == QualifyingGroup("netflix")
          IN  /\ Len(g) = 3
              /\ \E j \in 1..3 :
                    /\ \A k \in 1..3 : g[k].date <= g[j].date
                    /\ SeenAt(g[j]) < detectedSubscriptions[i].last_date
              /\ g[3].date < g[1].date

\* C20: a descriptor's transaction_count is the number of qualifying
\* transactions of its merchant and is at least minOccurrences, its status
\* is MATURE if that count is 3 or more and ACTIVE otherwise, and is_active
\* is true.
C20_MaturityAndCount ==
    Returned =>
        \A key \in InputKeys : \A i \in DescriptorsOf(key) :
            LET d == detectedSubscriptions[i]
            IN  /\ d.transaction_count = Len(QualifyingGroup(key))
                /\ d.transaction_count >= minOccurrences
                /\ d.status = "MATURE" <=> d.transaction_count >= 3
                /\ d.status = "ACTIVE" <=> d.transaction_count < 3
                /\ d.is_active = TRUE

\* two charges and a pending one: a count of 2 and ACTIVE
C20_Witness ==
    /\ Returned
    /\ Len(transactions) = 3
    /\ \E j \in 1..3 : transactions[j].pending
    /\ \A j \in 1..3 : getMerchantKey(transactions[j]) = "netflix"
    /\ \E i \in DescriptorsOf("netflix") :
          /\ detectedSubscriptions[i].transaction_count = 2
          /\ detectedSubscriptions[i].status = "ACTIVE"

\* the transactions detection is to consider: amount > 0 and not pending
Considered == SelectSeq(transactions, LAMBDA t : t.amount > 0 /\ ~t.pending)

\* C21: the result for an input is the result for that input without its
\* pending and its non-positive transactions, so adding or removing such
\* transactions changes no descriptor.
C21_OnlyPostedCharges ==
    Returned =>
        detectedSubscriptions =
            detectRecurringTransactions(Considered, minOccurrences, timeZone,
                                        knownSubscriptions)

\* a pending charge and a refund next to a charge that yields a descriptor
C21_Witness ==
    /\ Returned
    /\ Len(transactions) = 3
    /\ \E i \in 1..3 : transactions[i].pending
    /\ \E i \in 1..3 : transactions[i].amount < 0
    /\ Len(detectedSubscriptions) = 1
    /\ detectedSubscriptions[1].transaction_count = 1
    /\ detectedSubscriptions[1].amount = 1599

\* C22: in the list returned every descriptor's amount is at least the
\* amount of the descriptor after it.
C22_AmountNonIncreasing ==
    Returned =>
        \A i \in 1..(Len(detectedSubscriptions) - 1) :
            detectedSubscriptions[i].amount >= detectedSubscriptions[i + 1].amount

\* the merchant met first has the smaller amount and comes last
C22_Witness ==
    /\ Returned
    /\ Len(transactions) >= 2
    /\ transactions[1].amount = 800
    /\ transactions[2].amount = 1599
    /\ Len(detectedSubscriptions) >= 2
    /\ detectedSubscriptions[1].amount = 1599
    /\ detectedSubscriptions[Len(detectedSubscriptions)].amount = 800

\* the light key of a label: lower case, trimmed
LightKey(label) == trim(toLowerCase(label))

\* the label of a transaction: merchant_name, or name without one
LabelOf(t) == IF t.merchant_name = "" THEN t.name ELSE t.merchant_name

\* C23: no two descriptors have the same light key, and a descriptor counts
\* exactly the considered transactions whose label has its light key: labels
\* that differ in letter case or surrounding whitespace only are counted
\* together, labels that differ in any other way are not.
C23_GroupedByLightKey ==
    Returned =>
        /\ \A i, j \in 1..Len(detectedSubscriptions) :
              LightKey(detectedSubscriptions[i].merchant_name)
                    = LightKey(detectedSubscriptions[j].merchant_name) => i = j
        /\ \A i \in 1..Len(detectedSubscriptions) :
              detectedSubscriptions[i].transaction_count =
                  Cardinality({j \in 1..Len(Considered) :
                                  LightKey(LabelOf(Considered[j]))
                                    = LightKey(detectedSubscriptions[i].merchant_name)})

\* "Netflix" and " NETFLIX " share a descriptor, "netflix.com" has its own
C23_Witness ==
    /\ Returned
    /\ {transactions[j].merchant_name : j \in 1..Len(transactions)}
          = {"Netflix", " NETFLIX ", "netflix.com"}
    /\ Len(detectedSubscriptions) = 2
    /\ {detectedSubscriptions[i].transaction_count : i \in 1..2} = {1, 2}

\* C26: no two descriptors of a result have the same id.
C26_UniqueIds ==
    Returned =>
        \A i, j \in 1..Len(detectedSubscriptions) :
            detectedSubscriptions[i].id = detectedSubscriptions[j].id => i = j

\* what of a descriptor does not depend on the order of the input
OrderFree(d) ==
    [id |-> d.id, amount |-> d.amount, frequency |-> d.frequency, status |-> d.status,
     transaction_count |-> d.transaction_count, last_date |-> d.last_date,
     next_projected_date |-> d.next_projected_date]

OrderFreeSet(list) == {OrderFree(list[i]) : i \in 1..Len(list)}

\* C27: a call with the same transactions in another order returns as many
\* descriptors, and the same ones as far as id, amount, frequency, status,
\* transaction_count, last_date and next_projected_date go.
C27_OrderIndependent ==
    pc = "permuted" =>
        /\ Len(detectedAgain) = Len(detectedSubscriptions)
        /\ OrderFreeSet(detectedAgain) = OrderFreeSet(detectedSubscriptions)

\* the stored records as a set of positions, and those holding an external id
StoredWith(txs, plaidId) == {k \in 1..Len(txs) : txs[k].plaid_transaction_id = plaidId}

NoSharedPlaidId(txs) ==
    \A i, j \in 1..Len(txs) :
        txs[i].plaid_transaction_id = txs[j].plaid_transaction_id => i = j

\* the transactions of an upserted array that name an external id, in order
UpsertedFor(data, plaidId) ==
    SelectSeq(data, LAMBDA t : t.plaid_transaction_id = plaidId)

\* the external ids an upsert found in the store
UpsertedExisting ==
    {plaidId \in {lastCall.data[k].plaid_transaction_id : k \in 1..Len(lastCall.data)} :
        StoredWith(storedBefore, plaidId) # {}}

RecordWith(txs, plaidId) == txs[CHOOSE k \in StoredWith(txs, plaidId) : TRUE]

KeptFields == {"id", "created_at"}
StampFields == {"updated_at"}

\* the value a field has in the last transaction of the list that carries it
RECURSIVE LatestCarrying(_, _, _)
LatestCarrying(items, f, otherwise) ==
    IF items = <<>> THEN otherwise
    ELSE LET last == items[Len(items)]
         IN  IF f \in DOMAIN last THEN last[f]
             ELSE LatestCarrying(SubSeq(items, 1, Len(items) - 1), f, otherwise)

CarriedBy(items) == UNION {DOMAIN items[k] : k \in 1..Len(items)}

\* C24 as stated: no two stored transactions share a plaid_transaction_id, and
\* the record of an id that was upserted again keeps its id and created_at
\* and has, in its other fields, what the upserted transaction carries and
\* nothing else.
C24_ReplacedByUpsert ==
    /\ NoSharedPlaidId(stored)
    /\ lastCall.op = "upsert" =>
          \A plaidId \in UpsertedExisting :
              LET old == RecordWith(storedBefore, plaidId)
                  new == RecordWith(stored, plaidId)
                  items == UpsertedFor(lastCall.data, plaidId)
                  upserted == items[Len(items)]
              IN  /\ new.id = old.id
                  /\ new.created_at = old.created_at
                  /\ DOMAIN new = DOMAIN upserted \cup KeptFields \cup StampFields
                  /\ \A f \in DOMAIN upserted : new[f] = upserted[f]

\* C24: no two stored transactions share a plaid_transaction_id, and the
\* record of an id that was upserted again keeps its id and created_at, has
\* in every field the upserted transactions carry the value of the last one
\* that carries it, and keeps the other fields it had.
C24_MergedByUpsert ==
    /\ NoSharedPlaidId(stored)
    /\ lastCall.op = "upsert" =>
          \A plaidId \in UpsertedExisting :
              LET old == RecordWith(storedBefore, plaidId)
                  new == RecordWith(stored, plaidId)
                  items == UpsertedFor(lastCall.data, plaidId)
              IN  /\ new.id = old.id
                  /\ new.created_at = old.created_at
                  /\ DOMAIN new = DOMAIN old \cup CarriedBy(items)
                  /\ \A f \in DOMAIN new \ (KeptFields \cup StampFields) :
                        new[f] = LatestCarrying(items, f, old[f])

\* an array naming p1 twice was upserted into a store that held p1 with a
\* merchant_name, and the last transaction for p1 carries none
C24_Witness ==
    /\ lastCall.op = "upsert"
    /\ "p1" \in UpsertedExisting
    /\ Len(UpsertedFor(lastCall.data, "p1")) = 2
    /\ "merchant_name" \in DOMAIN RecordWith(storedBefore, "p1")
    /\ "merchant_name" \notin
          DOMAIN UpsertedFor(lastCall.data, "p1")[Len(UpsertedFor(lastCall.data, "p1"))]
    /\ Len(stored) >= 2

\* C28: after deleteByMerchant(u, m) the recurring list of u has no descriptor
\* whose merchant key is the lower-cased, trimmed m; the store holds, in their
\* order, exactly the records it held that belong to another user or have
\* another merchant key; and the count returned is the number of records
\* that are gone.
C28_DeletedMerchantIsGone ==
    lastCall.op = "deleteByMerchant" =>
        LET gone == {k \in 1..Len(storedBefore) :
                        /\ storedBefore[k].user_id = lastCall.userId
                        /\ LightKey(MerchantNameOrName(storedBefore[k]))
                              = LightKey(lastCall.merchantName)}
        IN  /\ stored = SelectSeq(storedBefore,
                            LAMBDA t : \/ t.user_id # lastCall.userId
                                       \/ LightKey(MerchantNameOrName(t))
                                             # LightKey(lastCall.merchantName))
            /\ lastCall.returned = Cardinality(gone)
            /\ lastCall.returned = Len(storedBefore) - Len(stored)
            /\ (recurring.read /\ recurring.userId = lastCall.userId) =>
                  \A i \in 1..Len(recurring.subscriptions) :
                      LightKey(recurring.subscriptions[i].merchant_name)
                          # LightKey(lastCall.merchantName)

\* u1's two Netflix charges were deleted, another user's Netflix charges and
\* u1's cafe charges stayed, and u1's recurring list still has the cafe
C28_Witness ==
    /\ lastCall.op = "deleteByMerchant"
    /\ lastCall.userId = "u1"
    /\ lastCall.merchantName = " NETFLIX "
    /\ lastCall.returned = 2
    /\ Len(stored) = 3
    /\ recurring.read
    /\ recurring.userId = "u1"
    /\ Len(recurring.subscriptions) = 1
    /\ Len(RecurringOf(storedBefore, "u1")) = 2

\* the visit requests that were answered, and the seconds their bodies gave
CompletedVisits == {r \in Requests : visitRequests[r].at = "completed"}

RECURSIVE SecondsOf(_)
SecondsOf(rs) ==
    IF rs = {} THEN 0
    ELSE LET r == CHOOSE x \in rs : TRUE
         IN  TimeSpentSeconds(visitRequests[r].body) + SecondsOf(rs \ {r})

\* C25: once N visit requests are completed, whatever the order of their
\* read and write steps, visit_count has grown by N and total_time_seconds
\* by the sum of their time_spent_seconds.
C25_EveryVisitCounted ==
    pc = "visit" =>
        /\ subscriptionRow.visit_count = firstRow.visit_count + Cardinality(CompletedVisits)
        /\ subscriptionRow.total_time_seconds
              = firstRow.total_time_seconds + SecondsOf(CompletedVisits)

\* C29: two visit increments sent for one subscription are at least
\* MIN_VISIT_INTERVAL_MS apart, however the tab events, the flushes and the
\* responses of the backend fall.
C29_OneVisitPerWindow ==
    pc = "tracker" =>
        \A s \in SubscriptionIds :
            \A i, j \in 1..Len(visitsSent[s]) :
                i < j => visitsSent[s][j] - visitsSent[s][i] >= MIN_VISIT_INTERVAL_MS

\* the whole seconds the open tabs of a subscription have run up since their
\* startTime
RECURSIVE RunningSeconds(_, _)
RunningSeconds(s, i) ==
    IF i > Len(openSubscriptionTabs) THEN 0
    ELSE (IF openSubscriptionTabs[i].value.subscriptionId = s
          THEN ElapsedSeconds(trackerNow, openSubscriptionTabs[i].value.startTime)
          ELSE 0)
         + RunningSeconds(s, i + 1)

\* C30: whenever no update is waiting for its response, the seconds the
\* backend holds for a subscription, those pending and those its open tabs
\* have run up are together the seconds its tabs have been tracked: none is
\* dropped and none is reported twice.
C30_SecondsConserved ==
    (pc = "tracker" /\ tasks = <<>>) =>
        \A s \in SubscriptionIds :
            backend[s].total_time_seconds + PendingSeconds(pendingTimeUpdates, s)
                + RunningSeconds(s, 1) = trackedSeconds[s]

=============================================================================
